---------------------------- MODULE Spec2Model ----------------------------
(***************************************************************************)
(* The local quote-bundle subsystem of hitokoto-cli: the failover          *)
(* downloader (bundle_get.py), the index builder (bundle_manage.py) and    *)
(* the index-backed lookups (bundle_echo.py), over one bundle directory.   *)
(*                                                                         *)
(* The specifications share the bundle directory (files, index, meta):     *)
(*   SpecIdx  category-file writes, index rebuilds, deletion and lookups;  *)
(*   Spec     one get_bundle run, one fetch attempt per step;              *)
(*   SpecExp  export_sentences_to_file over installed bundles;             *)
(*   SpecChk  check_bundle_integrity over bundle directories;              *)
(*   SpecFmt  format_sentence_output over sentences.                       *)
(*                                                                         *)
(* JSON values.  An optional field is <<>> when the key is absent and      *)
(* <<v>> when present.  A string is the sequence of its characters.        *)
(* `hitokoto` is <<>>, <<"str", s>> or <<"num", n>> (a JSON number, on     *)
(* which Python's len() raises TypeError).  An element of a category file  *)
(* that is not a JSON object has dict = FALSE.                             *)
(* A file of the bundle directory is <<"absent">>, <<"list", content>>,    *)
(* <<"object">> (JSON, but not an array) or <<"garbage">> (not JSON).      *)
(* Disk writes are assumed to succeed.                                     *)
(***************************************************************************)
EXTENDS Integers, Sequences, FiniteSets, TLC

\* ------------------------------------------------------------------ bounds

\* Longest category file (in records) written in SpecIdx.
MaxLen == 2
\* Category-file writes in one behaviour of SpecIdx.
MaxWrites == 2
\* Consecutive rebuilds counted by n_rebuild.
MaxRebuilds == 2
\* Fetch attempts of one run that answer differently from their mirror's mode.
MaxGlitches == 1
\* Highest counter generate_unique_filename reaches.
MaxCounter == 2
\* export_sentences_to_file calls in one behaviour of SpecExp.
MaxExports == 2

\* ------------------------------------------------------------ program data

\* bundle_get.py:205, bundle_manage.py:119
sentence_types == <<"a", "b", "c", "d", "e", "f", "g", "h", "i", "j", "k", "l">>

Types == {sentence_types[i] : i \in 1..Len(sentence_types)}

NTypes == Len(sentence_types)

\* The registry, in the dict's insertion order (bundle_get.py:18-22).
SourceOrder == <<"of", "gh", "jsd">>

Sources == {SourceOrder[i] : i \in 1..Len(SourceOrder)}

\* The registry's URLs without their trailing slash: source_url.rstrip('/').
SourceBase(s) ==
    CASE s = "of"  -> "https://sentences-bundle.hitokoto.cn"
      [] s = "gh"  -> "https://raw.githubusercontent.com/hitokoto-osc/sentences-bundle/master"
      [] s = "jsd" -> "https://cdn.jsdelivr.net/gh/hitokoto-osc/sentences-bundle@latest"

get_bundle_sources == [s \in Sources |-> SourceBase(s) \o "/"]

NoFile == <<"absent">>

Exists(f) == f # NoFile

NoFiles == [t \in Types |-> NoFile]

\* f'{sentence_type}.json' relative to the bundle directory
FileName(t) == t \o ".json"

\* ---------------------------------------------------------------- records

Rec(i, u, t, h, l) == [dict |-> TRUE, id |-> i, uuid |-> u, type |-> t,
                       hitokoto |-> h, length |-> l,
                       from_who |-> <<>>, from |-> <<>>]

\* An element that is not a JSON object (a string, a number, a list).
NotDict == [dict |-> FALSE, id |-> <<>>, uuid |-> <<>>, type |-> <<>>,
            hitokoto |-> <<>>, length |-> <<>>, from_who |-> <<>>, from |-> <<>>]

\* {id:1, uuid:"u1", hitokoto:"x", type:"a"}
RecA == Rec(<<1>>, <<"u1">>, <<"a">>, <<"str", <<"x">>>>, <<>>)
\* {id:2, uuid:"u2", hitokoto:"y", length:3}: no type
RecNoType == Rec(<<2>>, <<"u2">>, <<>>, <<"str", <<"y">>>>, <<3>>)
\* no id
RecNoId == Rec(<<>>, <<"u3">>, <<"a">>, <<"str", <<"z", "z">>>>, <<>>)
\* an empty uuid
RecNoUuid == Rec(<<3>>, <<"">>, <<"b">>, <<"str", <<"w">>>>, <<>>)
\* hitokoto is a number: len() raises
RecBadText == Rec(<<4>>, <<"u4">>, <<"b">>, <<"num", 0>>, <<2>>)
\* a second record with id 1
RecDupId == Rec(<<1>>, <<"u5">>, <<"b">>, <<"str", <<"v", "v", "v">>>>, <<>>)

Universe == {RecA, RecNoType, RecNoId, RecNoUuid, RecBadText, RecDupId, NotDict}

\* The categories whose files SpecIdx writes.
LiveTypes == {"a", "b"}

SeqsUpTo(S, n) == UNION {[1..k -> S] : k \in 0..n}

Payloads == SeqsUpTo(Universe, MaxLen)

\* ------------------------------------------------------------------ state

VARIABLES
    files,        \* category files: [Types -> NoFile or <<"list", records>>]
    index,        \* index.jsonl: NoFile or <<"list", entries>>
    meta,         \* package-info.json: NoFile or <<"json", download_info>>
    gi_ret,       \* what the last generate_index_file call returned
    q_ret,        \* what the last lookup returned
    last_op,      \* the operation that ran last
    n_writes,     \* category-file writes so far
    n_rebuild,    \* generate_index_file calls since the last write or deletion
    dirty,        \* a category file changed since the last successful rebuild
    \* the mirrors
    mirror,       \* [Sources -> Modes]: how each mirror answers a request
    glitches,     \* requests so far that were answered otherwise
    \* one get_bundle run
    pc,           \* "idle", "primary", "retry", "end_pass", "returned", "crashed"
    source,       \* get_bundle's argument
    try_order,    \* get_bundle: try_order
    try_idx,      \* get_bundle: the position of try_source in try_order
    type_idx,     \* download_bundle_from_source: the position of sentence_type
    retry_idx,    \* download_single_file_with_retry: the position in retry_order
    downloaded_files, total_sentences, failed_types,
    source_usage, \* [Sources -> Nat]; 0 stands for a key the dict does not have
    last_error,   \* get_bundle: last_error
    dsf_ret,      \* what the last download_single_file_with_retry call returned
    dbs_ret,      \* what the last download_bundle_from_source call returned
    gb_ret,       \* what get_bundle returned
    attempts,     \* the fetches of the current category's call, in order
    calls,        \* the download_single_file_with_retry calls of the run, in order
    passes,       \* the number of files each finished pass obtained
    in_flight,    \* the requests sent and not yet answered: <<category, mirror>>
    hard_failed,  \* the categories of the pass whose failure was printed (not a 404)
    \* the tools
    out_files,    \* the output directory: [OutPaths -> NoFile or <<"text", quotes>>]
    exp_ret,      \* what the last export_sentences_to_file call did
    n_exports,    \* export_sentences_to_file calls so far
    chk_ret,      \* what the last check_bundle_integrity call did
    fmt_sentence, \* the sentence handed to format_sentence_output
    fmt_source,   \* its include_source argument
    fmt_ret,      \* what it returned
    \* one run of the command-line program
    command,      \* the operation the arguments ask for, "none" before the run
    main_ret,     \* what main returned: <<0>> or <<1>>, <<>> when it raised
    exit_status,  \* the status the process ended with, <<>> before the run
    \* two runs of the program at the same time
    procs,        \* [Procs -> the position and the locals of a get_bundle run]
    \* the remote API client's output path
    api_ret       \* what format_hitokoto_output returned for fmt_sentence

idxvars == <<q_ret, last_op, n_writes, n_rebuild, dirty>>

dlvars == <<mirror, glitches, pc, source, try_order, try_idx, type_idx, retry_idx,
            downloaded_files, total_sentences, failed_types, source_usage,
            last_error, dsf_ret, dbs_ret, gb_ret, attempts, calls, passes,
            in_flight, hard_failed>>

cliv == <<command, main_ret, exit_status, procs, api_ret>>

exvars == <<out_files, exp_ret, n_exports, chk_ret, fmt_sentence, fmt_source, fmt_ret>>

toolvars == <<exvars, cliv>>

vars == <<files, index, meta, gi_ret, idxvars, dlvars, toolvars>>

\* ------------------------------------------------------- bundle_manage.py

\* len(sentence.get('hitokoto', '')) raises for a value without a length.
LenRaises(r) == r.hitokoto # <<>> /\ r.hitokoto[1] = "num"

TextLen(r) == IF r.hitokoto = <<>> THEN 0 ELSE Len(r.hitokoto[2])

\* An entry that takes the category letter as its type whatever the record says.
IndexEntryFileType(r, t) ==
    [id     |-> r.id,
     uuid   |-> r.uuid,
     type   |-> t,
     file   |-> "bundle/" \o FileName(t),
     length |-> IF r.length = <<>> THEN TextLen(r) ELSE r.length[1]]

\* The entry of lines 153-159; the default of .get('length', ...) is computed
\* whether or not the record has a length.
IndexEntry(r, t) ==
    [id     |-> r.id,
     uuid   |-> r.uuid,
     type   |-> IF r.type = <<>> THEN t ELSE r.type[1],
     file   |-> "bundle/" \o FileName(t),
     length |-> IF r.length = <<>> THEN TextLen(r) ELSE r.length[1]]

\* A validity test that forgets the uuid.
EntryValidIdOnly(e) == e.id # <<>>

\* entry['id'] is not None and entry['uuid']
EntryValid(e) == e.id # <<>> /\ e.uuid # <<>> /\ e.uuid # <<"">>

\* The loop over one file's sentences: a non-dict is skipped, an entry lacking
\* id or uuid is skipped, and an exception ends the loop for this file with
\* the entries collected so far kept.
RECURSIVE FileEntries(_, _)
FileEntries(s, t) ==
    IF s = <<>> THEN <<>>
    ELSE LET r == Head(s) IN
         IF ~r.dict THEN FileEntries(Tail(s), t)
         ELSE IF LenRaises(r) THEN <<>>
         ELSE (IF EntryValid(IndexEntry(r, t)) THEN <<IndexEntry(r, t)>> ELSE <<>>)
              \o FileEntries(Tail(s), t)

\* The loop over sentence_types from position i: index_entries.
RECURSIVE CollectEntries(_, _)
CollectEntries(fs, i) ==
    IF i > Len(sentence_types) THEN <<>>
    ELSE LET t == sentence_types[i] IN
         (IF Exists(fs[t]) /\ fs[t][1] = "list" THEN FileEntries(fs[t][2], t) ELSE <<>>)
         \o CollectEntries(fs, i + 1)

\* "没有找到有效的语句数据" (line 179)
NoData == "no valid sentence data"

\* The index file opened for appending instead of overwritten.
IndexAppended(old, entries) ==
    <<"list", (IF old = NoFile THEN <<>> ELSE old[2]) \o entries>>

\* jsonlines.open(index_path, 'w'): the file is replaced by the entries.
IndexWritten(old, entries) == <<"list", entries>>

\* generate_index_file: the index file afterwards and the returned tuple

generate_index_file(fs, old) ==
    LET entries == CollectEntries(fs, 1) IN
    IF entries = <<>>
    THEN [index |-> old, ret |-> [ok |-> FALSE, count |-> 0, error |-> <<NoData>>]]
    ELSE [index |-> IndexWritten(old, entries),
          ret   |-> [ok |-> TRUE, count |-> Len(entries), error |-> <<>>]]

\* A loader that hands out an empty package info when it finds none.
LoadOrEmpty(m) == IF Exists(m) /\ m[1] = "json" THEN <<m[2]>> ELSE <<[files |-> <<>>]>>

\* load_package_info (bundle_manage.py and bundle_echo.py): None (<<>>) when
\* the file is missing or cannot be decoded, else the dict
load_package_info(m) == IF Exists(m) /\ m[1] = "json" THEN <<m[2]>> ELSE <<>>

\* The category whose file is file_name.
TypeOf(file_name) == CHOOSE t \in Types : FileName(t) = file_name

\* A check of one file entry that does not compare the counts.
FileIssueNoCount(fs, file_info) ==
    LET f == fs[TypeOf(file_info.name)] IN
    IF ~Exists(f) THEN <<<<"MissingFile", file_info.name>>>>
    ELSE IF f[1] = "garbage" THEN <<<<"ReadError", file_info.name>>>>
    ELSE <<>>

\* check_bundle_integrity, lines 222-250: the issues one file entry raises.
\* A decoded value that is not a list counts 0 elements.
FileIssue(fs, file_info) ==
    LET f == fs[TypeOf(file_info.name)]
        actual_count == IF f[1] = "list" THEN Len(f[2]) ELSE 0
    IN  IF ~Exists(f) THEN <<<<"MissingFile", file_info.name>>>>
        ELSE IF f[1] = "garbage" THEN <<<<"ReadError", file_info.name>>>>
        ELSE IF actual_count # file_info.amount
        THEN <<<<"CountMismatch", file_info.name, file_info.amount, actual_count>>>>
        ELSE <<>>

\* The loop over expected_files.
RECURSIVE FileIssues(_, _)
FileIssues(fs, expected_files) ==
    IF expected_files = <<>> THEN <<>>
    ELSE FileIssue(fs, Head(expected_files)) \o FileIssues(fs, Tail(expected_files))

\* check_bundle_integrity: (passed, issues or error), and the category and
\* index files it looked at.
check_bundle_integrity(fs, idx, m) ==
    LET package_info == load_package_info(m) IN
    IF package_info = <<>>
    THEN [ok |-> FALSE, issues |-> <<>>, error |-> <<"MissingMetadata">>, inspected |-> {}]
    ELSE LET expected_files == package_info[1].files
             issues == FileIssues(fs, expected_files)
                       \o (IF ~Exists(idx) THEN <<<<"MissingIndex">>>> ELSE <<>>)
         IN  [ok |-> issues = <<>>, issues |-> issues, error |-> <<>>,
              inspected |-> {expected_files[i].name : i \in 1..Len(expected_files)}
                            \cup {"index.jsonl"}]

\* --------------------------------------------------------- bundle_echo.py

\* load_index_file: [] when the file is missing
load_index_file(idx) == IF Exists(idx) THEN idx[2] ELSE <<>>

\* The first index item whose `key` equals v, as <<item>>, or <<>>
\* (item.get(key) == v, then break).
RECURSIVE FirstItem(_, _, _)
FirstItem(s, key, v) ==
    IF s = <<>> THEN <<>>
    ELSE IF Head(s)[key] = <<v>> THEN <<Head(s)>> ELSE FirstItem(Tail(s), key, v)

\* The scan of a loaded file for sentence.get(key) == v: .get raises on a
\* non-dict, which the caller's except turns into None.
RECURSIVE ScanFile(_, _, _)
ScanFile(s, key, v) ==
    IF s = <<>> THEN <<>>
    ELSE IF ~Head(s).dict THEN <<>>
    ELSE IF Head(s)[key] = <<v>> THEN <<Head(s)>> ELSE ScanFile(Tail(s), key, v)

\* The file a lookup opens for an index item: f"{target_item['type']}.json"
ItemFile(item) == item.type

\* Lines 97-119 (141-164): open the item's file and scan it.
Resolve(fs, item, key, v) ==
    LET t == ItemFile(item) IN
    IF t \notin Types \/ ~Exists(fs[t]) THEN <<>>
    ELSE IF fs[t][1] # "list" THEN <<>>
    ELSE ScanFile(fs[t][2], key, v)

\* <<>> is None
get_sentence_by_id(fs, idx, id) ==
    LET hit == FirstItem(load_index_file(idx), "id", id) IN
    IF hit = <<>> THEN <<>>
    ELSE Resolve(fs, hit[1], "id", id)

get_sentence_by_uuid(fs, idx, uuid) ==
    LET hit == FirstItem(load_index_file(idx), "uuid", uuid) IN
    IF hit = <<>> THEN <<>>
    ELSE Resolve(fs, hit[1], "uuid", uuid)

\* The length filter of lines 187-191 (249-253): item.get('length', 0) against
\* the bounds that are not None.
LengthOk(item, min_length, max_length) ==
    /\ (min_length # <<>> => ~(item.length < min_length[1]))
    /\ (max_length # <<>> => ~(item.length > max_length[1]))

\* The filter loop shared by get_random_sentence and get_sentences_by_type;
\* an empty (falsy) set of types filters nothing.
RECURSIVE FilterItems(_, _, _, _)
FilterItems(s, types, min_length, max_length) ==
    IF s = <<>> THEN <<>>
    ELSE (IF (types # {} /\ Head(s).type \notin types)
             \/ ~LengthOk(Head(s), min_length, max_length)
          THEN <<>> ELSE <<Head(s)>>)
         \o FilterItems(Tail(s), types, min_length, max_length)

\* [] when the index is empty or missing
get_sentences_by_type(idx, types, min_length, max_length) ==
    FilterItems(load_index_file(idx), types, min_length, max_length)

\* get_random_sentence with random.choice picking position k of the filtered
\* items (any k when there is none): the record returned, or <<>> for None.
get_random_sentence(fs, idx, types, min_length, max_length, k) ==
    LET filtered_items == FilterItems(load_index_file(idx), types, min_length, max_length) IN
    IF filtered_items = <<>> THEN <<>>
    ELSE LET selected_item == filtered_items[k] IN
         Resolve(fs, selected_item, "id", selected_item.id[1])

\* The characters str.strip() removes.
Whitespace == {" ", "\t", "\n"}

RECURSIVE LStrip(_)
LStrip(s) == IF s # <<>> /\ Head(s) \in Whitespace THEN LStrip(Tail(s)) ELSE s

RECURSIVE RStrip(_)
RStrip(s) == IF s # <<>> /\ s[Len(s)] \in Whitespace
             THEN RStrip(SubSeq(s, 1, Len(s) - 1)) ELSE s

\* str.strip()
strip(s) == RStrip(LStrip(s))

\* 'null'
NullText == <<"n", "u", "l", "l">>

\* " ——" (a space and two U+2014 dashes), written in ASCII
Dash == <<" ", "-", "-">>

\* The quotation marks U+300C and U+300D, written in ASCII
OpenMark == <<"[">>

CloseMark == <<"]">>

\* A test that keeps the literal 'null'.
HasValueKeepNull(v) == v # <<>> /\ v[1] # <<>> /\ strip(v[1]) # <<>>

\* from_who and from_who != 'null' and from_who.strip()
\* (v is <<>> for a missing key and for JSON null, both None to .get).
HasValue(v) == v # <<>> /\ v[1] # <<>> /\ v[1] # NullText /\ strip(v[1]) # <<>>

\* format_sentence_output: source_parts
source_parts(sentence) ==
    (IF HasValue(sentence.from_who) THEN <<sentence.from_who[1]>> ELSE <<>>)
    \o (IF HasValue(sentence.from) THEN <<OpenMark \o sentence.from[1] \o CloseMark>>
        ELSE <<>>)

\* format_sentence_output(sentence, include_source) in text format: <<"str", s>>,
\* the value of a hitokoto that is not a string when nothing is appended to
\* it, or <<"raise">> (.get on a non-dict, += of a str to a number).
format_sentence_output(sentence, include_source) ==
    LET hitokoto == IF sentence.hitokoto = <<>> THEN <<"str", <<>>>> ELSE sentence.hitokoto
        parts    == IF include_source THEN source_parts(sentence) ELSE <<>>
    IN  IF ~sentence.dict THEN <<"raise">>
        ELSE IF parts = <<>> THEN hitokoto
        ELSE IF hitokoto[1] # "str" THEN <<"raise">>
        ELSE <<"str", hitokoto[2] \o Dash \o parts[1]
                      \o (IF Len(parts) > 1 THEN parts[2] ELSE <<>>)>>

\* ---------------------------------------------------------- hitokoto_api.py

\* " —— " (a space, two U+2014 dashes and a space), written in ASCII
DashSpaced == <<" ", "-", "-", " ">>

\* from_who and from_who not in [None, 'null', '']
ApiHasValue(v) == v # <<>> /\ v[1] # <<>> /\ v[1] # NullText

\* format_hitokoto_output: source_parts
api_source_parts(data) ==
    (IF ApiHasValue(data.from_who) THEN <<data.from_who[1]>> ELSE <<>>)
    \o (IF ApiHasValue(data.from) THEN <<OpenMark \o data.from[1] \o CloseMark>>
        ELSE <<>>)

\* format_hitokoto_output(data, include_source) in text format, for data that
\* is not empty: <<"str", s>>, the value of a hitokoto that is not a string
\* when nothing is appended to it, or <<"raise">>.
format_hitokoto_output(data, include_source) ==
    LET hitokoto_text == IF data.hitokoto = <<>> THEN <<"str", <<>>>> ELSE data.hitokoto
        parts         == IF include_source THEN api_source_parts(data) ELSE <<>>
    IN  IF ~data.dict THEN <<"raise">>
        ELSE IF parts = <<>> THEN hitokoto_text
        ELSE IF hitokoto_text[1] # "str" THEN <<"raise">>
        ELSE <<"str", hitokoto_text[2] \o DashSpaced \o parts[1]
                      \o (IF Len(parts) = 2 THEN parts[2] ELSE <<>>)>>

\* --------------------------------------------------- bundle_echo.py (files)

\* The file names of the output directory: os.path.splitext(filename).
DefaultName == [name |-> "hitokoto", ext |-> ".txt"]

OutNames == {DefaultName, [name |-> "out", ext |-> ".json"]}

\* filename for counter 0, f"{name}({counter}){ext}" otherwise
Path(f, counter) ==
    IF counter = 0 THEN f.name \o f.ext
    ELSE f.name \o "(" \o ToString(counter) \o ")" \o f.ext

OutPaths == {Path(f, k) : f \in OutNames, k \in 0..MaxCounter}

\* A name generator that returns the requested name whether or not it is used.
RequestedFilename(out, f) == Path(f, 0)

\* generate_unique_filename: the first counter from 0 whose path is unused
\* (callers keep a counter up to MaxCounter free).
generate_unique_filename(out, f) ==
    Path(f, CHOOSE k \in 0..MaxCounter :
                /\ ~Exists(out[Path(f, k)])
                /\ \A j \in 0..(k - 1) : Exists(out[Path(f, j)]))

\* A dedup test that never finds an id used.
AlreadyUsedNever(id, used_ids) == FALSE

\* item['id'] in used_ids
AlreadyUsed(id, used_ids) == id \in used_ids

\* export_sentences_to_file, lines 315-328: the sentences resolved for the
\* selected items, in order.
RECURSIVE Gather(_, _, _, _)
Gather(fs, idx, selected_items, used_ids) ==
    IF selected_items = <<>> THEN <<>>
    ELSE LET item == Head(selected_items) IN
         IF AlreadyUsed(item.id[1], used_ids)
         THEN Gather(fs, idx, Tail(selected_items), used_ids)
         ELSE LET sentence == get_sentence_by_id(fs, idx, item.id[1]) IN
              IF sentence # <<>>
              THEN sentence \o Gather(fs, idx, Tail(selected_items),
                                      used_ids \cup {item.id[1]})
              ELSE Gather(fs, idx, Tail(selected_items), used_ids)

\* A test that lets an export without sentences go on.
NoContentNever(sentences) == FALSE

\* if not sentences: return False
NoContent(sentences) == sentences = <<>>

\* The quotes f.write accepts, in order: the formatted sentences up to the
\* first that is not a string (on which the write raises).
RECURSIVE Written(_, _)
Written(sentences, include_source) ==
    IF sentences = <<>> THEN <<>>
    ELSE LET q == format_sentence_output(Head(sentences), include_source) IN
         IF q[1] # "str" THEN <<>>
         ELSE <<q[2]>> \o Written(Tail(sentences), include_source)

\* The requested count clamped to the candidates (lines 309-312).
Clamp(count, available_items) ==
    IF Len(available_items) < count THEN Len(available_items) ELSE count

\* What random.sample(available_items, count) can return, as positions.
Samples(n, count) ==
    IF count < 0 THEN {<<>>}
    ELSE {c \in [1..count -> 1..n] : \A i, j \in 1..count : c[i] = c[j] => i = j}

\* export_sentences_to_file.  output_path is <<>> for a directory (the file is
\* then hitokoto.txt) and <<f>> for a file name with a recognised extension;
\* sample is the positions random.sample drew.  Returns the output directory
\* afterwards and what the call did.
export_sentences_to_file(fs, idx, m, out, count, output_path, types, min_length, max_length, include_source, sample) ==
    LET available_items ==
            get_sentences_by_type(idx, IF types = {} THEN Types ELSE types,
                                  min_length, max_length)
        n == Clamp(count, available_items)
        selected_items == [i \in 1..Len(sample) |-> available_items[sample[i]]]
        sentences == Gather(fs, idx, selected_items, {})
        f == IF output_path = <<>> THEN DefaultName ELSE output_path[1]
        output_file == generate_unique_filename(out, f)
        quotes == Written(sentences, include_source)
        fail(reason, k) ==
            [out |-> out,
             ret |-> [ok |-> FALSE, reason |-> reason, count |-> count,
                      available |-> k, sentences |-> <<>>, file |-> "",
                      wanted |-> f, include_source |-> include_source]]
    IN  IF load_package_info(m) = <<>> THEN fail("NoBundle", 0)
        ELSE IF available_items = <<>> THEN fail("NoMatch", 0)
        ELSE IF n < 0 THEN fail("ValueError", Len(available_items))
        ELSE IF NoContent(sentences) THEN fail("NoContent", Len(available_items))
        ELSE [out |-> [out EXCEPT ![output_file] = <<"text", quotes>>],
              ret |-> [ok |-> Len(quotes) = Len(sentences),
                       reason |-> IF Len(quotes) = Len(sentences) THEN "" ELSE "WriteError",
                       count |-> count, available |-> Len(available_items),
                       sentences |-> sentences, file |-> output_file,
                       wanted |-> f, include_source |-> include_source]]

\* -------------------------------------------------------- hitokoto_cli.py

\* check_bundle_exists: load_package_info(bundle_dir) is not None
check_bundle_exists(m) == load_package_info(m) # <<>>

\* Lines 441-442: `main()` is a bare call, so what main returns is dropped
\* and the interpreter ends with status 0; it ends with status 1 when main
\* raised.
ExitStatus(ret) == IF ret = <<>> THEN <<1>> ELSE <<0>>

\* Two processes running the program on one bundle directory.
Procs == {1, 2}

\* Neither has started.
NoProcs ==
    [p \in Procs |-> [pc |-> "idle", type_idx |-> 0, downloaded_files |-> <<>>,
                      total_sentences |-> 0, ok |-> FALSE]]

\* No run of the command-line program.
NoCommand ==
    /\ command = "none"
    /\ main_ret = <<>>
    /\ exit_status = <<>>
    /\ procs = NoProcs
    /\ api_ret = <<"none">>

\* -------------------------------------------------------- SpecIdx actions

NoRet == [op |-> "none", arg |-> <<>>, val |-> <<>>]

NoGi == [ok |-> FALSE, count |-> 0, error |-> <<"not called">>]

NoDsf == [type |-> "", ok |-> FALSE, count |-> 0, used |-> "", error |-> <<"not called">>]

NoInfo == [source |-> "", source_url |-> "", files_amount |-> 0, files |-> <<>>,
           amount |-> 0, source_usage |-> [m \in Sources |-> 0],
           failed_types |-> <<>>]

NoGb == [ok |-> FALSE, info |-> NoInfo, error |-> <<"not called">>]

\* A write that appends to the list the file holds.
SaveFileAppend(fs, t, data) ==
    [fs EXCEPT ![t] = IF @ # NoFile /\ @[1] = "list" THEN <<"list", @[2] \o data>>
                      ELSE <<"list", data>>]

\* download_sentence_file, lines 106-109: the whole decoded list replaces the file
SaveFile(fs, t, data) == [fs EXCEPT ![t] = <<"list", data>>]

\* An empty bundle directory.
DiskInit ==
    /\ files = NoFiles
    /\ index = NoFile
    /\ meta = NoFile
    /\ gi_ret = NoGi
    /\ q_ret = NoRet
    /\ last_op = "init"
    /\ n_writes = 0
    /\ n_rebuild = 0
    /\ dirty = FALSE

\* No get_bundle run.
NoRun ==
    /\ glitches = 0
    /\ pc = "idle"
    /\ source = "gh"
    /\ try_order = <<>>
    /\ try_idx = 0
    /\ type_idx = 0
    /\ retry_idx = 0
    /\ downloaded_files = <<>>
    /\ total_sentences = 0
    /\ failed_types = <<>>
    /\ source_usage = [m \in Sources |-> 0]
    /\ last_error = <<>>
    /\ dsf_ret = NoDsf
    /\ dbs_ret = NoGb
    /\ gb_ret = NoGb
    /\ attempts = <<>>
    /\ calls = <<>>
    /\ passes = <<>>
    /\ in_flight = {}
    /\ hard_failed = <<>>

NoExp == [ok |-> FALSE, reason |-> "not called", count |-> 0, available |-> 0,
          sentences |-> <<>>, file |-> "", wanted |-> DefaultName,
          include_source |-> FALSE]

NoChk == [ok |-> FALSE, issues |-> <<>>, error |-> <<"not called">>, inspected |-> {}]

NoOut == [p \in OutPaths |-> NoFile]

\* No export, no integrity check, no formatting yet.
NoTools ==
    /\ out_files = NoOut
    /\ exp_ret = NoExp
    /\ n_exports = 0
    /\ chk_ret = NoChk
    /\ fmt_sentence = NotDict
    /\ fmt_source = FALSE
    /\ fmt_ret = <<"none">>
    /\ NoCommand

IdxInit ==
    /\ DiskInit
    /\ NoRun
    /\ NoTools
    /\ mirror = [m \in Sources |-> "ok"]

\* A successful fetch of category t writes its file.
WriteFile ==
    /\ n_writes < MaxWrites
    /\ \E t \in LiveTypes, p \in Payloads :
        files' = SaveFile(files, t, p)
    /\ n_writes' = n_writes + 1
    /\ n_rebuild' = 0
    /\ dirty' = TRUE
    /\ last_op' = "write"
    /\ q_ret' = NoRet
    /\ UNCHANGED <<index, meta, gi_ret, dlvars, toolvars>>

RebuildIndex ==
    /\ n_rebuild < MaxRebuilds
    /\ LET r == generate_index_file(files, index) IN
        /\ index' = r.index
        /\ gi_ret' = r.ret
        /\ dirty' = IF r.ret.ok THEN FALSE ELSE dirty
    /\ n_rebuild' = n_rebuild + 1
    /\ last_op' = "rebuild"
    /\ q_ret' = NoRet
    /\ UNCHANGED <<files, meta, n_writes, dlvars, toolvars>>

\* hitokoto_cli.py: shutil.rmtree(bundle_dir)
DeleteBundle ==
    /\ files' = NoFiles
    /\ index' = NoFile
    /\ meta' = NoFile
    /\ n_rebuild' = 0
    /\ dirty' = FALSE
    /\ last_op' = "delete"
    /\ q_ret' = NoRet
    /\ UNCHANGED <<gi_ret, n_writes, dlvars, toolvars>>

QueryIds == {1, 2, 3}

QueryUuids == {"u1", "u2", "u5"}

LookupId ==
    /\ \E id \in QueryIds :
        q_ret' = [op |-> "id", arg |-> <<id>>, val |-> get_sentence_by_id(files, index, id)]
    /\ last_op' = "lookup"
    /\ UNCHANGED <<files, index, meta, gi_ret, n_writes, n_rebuild, dirty, dlvars, toolvars>>

LookupUuid ==
    /\ \E u \in QueryUuids :
        q_ret' = [op |-> "uuid", arg |-> <<u>>, val |-> get_sentence_by_uuid(files, index, u)]
    /\ last_op' = "lookup"
    /\ UNCHANGED <<files, index, meta, gi_ret, n_writes, n_rebuild, dirty, dlvars, toolvars>>

\* The category filters of a random query: none, or one category.
QueryTypes == {{}, {"a"}}

\* The length bounds of a random query: None, or 2.
QueryBounds == {<<>>, <<2>>}

Choices(n) == IF n = 0 THEN {1} ELSE 1..n

RandomQuote ==
    /\ \E ty \in QueryTypes, lo \in QueryBounds, hi \in QueryBounds :
        \E k \in Choices(Len(get_sentences_by_type(index, ty, lo, hi))) :
            q_ret' = [op |-> "random", arg |-> <<ty, lo, hi>>,
                      val |-> get_random_sentence(files, index, ty, lo, hi, k)]
    /\ last_op' = "lookup"
    /\ UNCHANGED <<files, index, meta, gi_ret, n_writes, n_rebuild, dirty, dlvars, toolvars>>

IdxNext ==
    \/ WriteFile
    \/ RebuildIndex
    \/ DeleteBundle
    \/ LookupId
    \/ LookupUuid
    \/ RandomQuote

SpecIdx == IdxInit /\ [][IdxNext]_vars

\* -------------------------------------------------------- SpecExp actions

\* The category files of the bundles exports run on.
ExpPayloads == {<<>>, <<RecA>>, <<RecDupId>>, <<RecNoType>>, <<RecA, RecNoType>>}

ExpFiles == {SaveFile(SaveFile(NoFiles, "a", p), "b", q) :
                p \in ExpPayloads, q \in {x \in ExpPayloads : Len(x) <= 1}}

\* download_bundle_from_source, lines 225-229: the `files` entries of the
\* download_info for the category files on disk from position i on.
RECURSIVE InfoFiles(_, _)
InfoFiles(fs, i) ==
    IF i > Len(sentence_types) THEN <<>>
    ELSE LET t == sentence_types[i] IN
         (IF Exists(fs[t]) /\ fs[t][1] = "list"
          THEN <<[name |-> FileName(t), amount |-> Len(fs[t][2]), source |-> "gh"]>>
          ELSE <<>>)
         \o InfoFiles(fs, i + 1)

RECURSIVE SumAmounts(_)
SumAmounts(entries) ==
    IF entries = <<>> THEN 0 ELSE Head(entries).amount + SumAmounts(Tail(entries))

\* The download_info of a run that obtained the category files fs from gh.
PackageInfo(fs) ==
    [source       |-> "gh",
     source_url   |-> SourceBase("gh"),
     files_amount |-> Len(InfoFiles(fs, 1)),
     files        |-> InfoFiles(fs, 1),
     amount       |-> SumAmounts(InfoFiles(fs, 1)),
     source_usage |-> [m \in Sources |-> IF m = "gh" THEN Len(InfoFiles(fs, 1)) ELSE 0],
     failed_types |-> SelectSeq(sentence_types, LAMBDA t : ~Exists(fs[t]))]

\* A file of the output directory that no export wrote.
OldFile == <<"text", <<<<"o", "l", "d">>>>>>

\* The output directory before the first export.
ExpOut ==
    {NoOut,
     [NoOut EXCEPT !["hitokoto.txt"] = OldFile],
     [NoOut EXCEPT !["hitokoto.txt"] = OldFile, !["hitokoto(2).txt"] = OldFile]}

\* A bundle as get_bundle leaves it (category files, package-info.json, the
\* index built from them), and an output directory.
ExpInit ==
    /\ files \in ExpFiles
    /\ meta = <<"json", PackageInfo(files)>>
    /\ index = generate_index_file(files, NoFile).index
    /\ gi_ret = generate_index_file(files, NoFile).ret
    /\ q_ret = NoRet
    /\ last_op = "init"
    /\ n_writes = 0
    /\ n_rebuild = 0
    /\ dirty = ~gi_ret.ok
    /\ NoRun
    /\ mirror = [m \in Sources |-> "ok"]
    /\ out_files \in ExpOut
    /\ exp_ret = NoExp
    /\ n_exports = 0
    /\ chk_ret = NoChk
    /\ fmt_sentence = NotDict
    /\ fmt_source = FALSE
    /\ fmt_ret = <<"none">>
    /\ NoCommand

\* main, lines 295-339: what main returns after export_sentences_to_file
\* returned success or failure; it does not return when the call raised.
MainAfterExport(ret) ==
    IF ret.reason = "ValueError" THEN <<>> ELSE IF ret.ok THEN <<0>> ELSE <<1>>

\* The counts, targets and filters of the exports.
ExpCounts == {-1, 0, 1, 5}

ExpTargets == {<<>>} \cup {<<f>> : f \in OutNames \ {DefaultName}}

\* generate_unique_filename finds a free counter up to MaxCounter.
CounterFree(out) ==
    \A f \in OutNames : \E k \in 0..MaxCounter : ~Exists(out[Path(f, k)])

ExportToFile ==
    /\ n_exports < MaxExports
    /\ CounterFree(out_files)
    /\ \E count \in ExpCounts, output_path \in ExpTargets, types \in QueryTypes,
          hi \in QueryBounds, include_source \in BOOLEAN :
        LET available_items ==
                get_sentences_by_type(index, IF types = {} THEN Types ELSE types, <<>>, hi)
        IN  \E sample \in Samples(Len(available_items), Clamp(count, available_items)) :
            LET r == export_sentences_to_file(files, index, meta, out_files, count,
                         output_path, types, <<>>, hi, include_source, sample)
            IN  /\ out_files' = r.out
                /\ exp_ret' = r.ret
                /\ command' = "export"
                /\ main_ret' = MainAfterExport(r.ret)
                /\ exit_status' = ExitStatus(MainAfterExport(r.ret))
    /\ n_exports' = n_exports + 1
    /\ UNCHANGED <<files, index, meta, gi_ret, idxvars, dlvars, chk_ret,
                   fmt_sentence, fmt_source, fmt_ret, procs, api_ret>>

ExpNext ==
    \/ ExportToFile
    \/ DeleteBundle

SpecExp == ExpInit /\ [][ExpNext]_vars

\* ------------------------------------------------------ SpecStale actions

\* What a.json can hold when an export runs.
StaleFileStates == {NoFile} \cup {<<"list", p>> : p \in ExpPayloads}

\* A bundle whose index was built from an earlier content of a.json: the
\* file was rewritten since (a download whose index build failed or that was
\* cut short, a change by hand) and the index was not.
StaleInit ==
    /\ index \in {generate_index_file(SaveFile(NoFiles, "a", p), NoFile).index :
                  p \in ExpPayloads}
    /\ files \in {[NoFiles EXCEPT !["a"] = f] : f \in StaleFileStates}
    /\ meta = <<"json", PackageInfo(files)>>
    /\ gi_ret = NoGi
    /\ q_ret = NoRet
    /\ last_op = "init"
    /\ n_writes = 0
    /\ n_rebuild = 0
    /\ dirty = TRUE
    /\ NoRun
    /\ mirror = [m \in Sources |-> "ok"]
    /\ out_files = NoOut
    /\ exp_ret = NoExp
    /\ n_exports = 0
    /\ chk_ret = NoChk
    /\ fmt_sentence = NotDict
    /\ fmt_source = FALSE
    /\ fmt_ret = <<"none">>
    /\ NoCommand

SpecStale == StaleInit /\ [][ExpNext]_vars

\* -------------------------------------------------------- SpecChk actions

\* What a category file can be when the bundle is checked.
ChkFileStates == {NoFile, <<"list", <<>>>>, <<"list", <<RecA>>>>, <<"object">>, <<"garbage">>}

\* The category files: a.json and b.json in any state, the other ten all
\* missing or all holding one record.
ChkFiles ==
    {[t \in Types |-> IF t = "a" THEN fa ELSE IF t = "b" THEN fb ELSE fr] :
        fa \in ChkFileStates, fb \in ChkFileStates, fr \in {NoFile, <<"list", <<RecA>>>>}}

\* The numbers of files package-info.json lists, and the amount it records
\* for each.
ChkListed == {0, 1, 2, NTypes}

ChkAmounts == {0, 1}

\* The package info of a download that obtained the first n categories.
ChkInfo(n, amount) ==
    [source       |-> "gh",
     source_url   |-> SourceBase("gh"),
     files_amount |-> n,
     files        |-> [i \in 1..n |-> [name |-> FileName(sentence_types[i]),
                                       amount |-> amount, source |-> "gh"]],
     amount       |-> n * amount,
     source_usage |-> [m \in Sources |-> IF m = "gh" THEN n ELSE 0],
     failed_types |-> SubSeq(sentence_types, n + 1, NTypes)]

ChkMetas ==
    {NoFile, <<"garbage">>}
    \cup {<<"json", ChkInfo(n, amount)>> : n \in ChkListed, amount \in ChkAmounts}

\* A bundle directory as downloads, deletions by hand and damage leave it.
ChkInit ==
    /\ files \in ChkFiles
    /\ index \in {NoFile, <<"list", <<IndexEntry(RecA, "a")>>>>}
    /\ meta \in ChkMetas
    /\ gi_ret = NoGi
    /\ q_ret = NoRet
    /\ last_op = "init"
    /\ n_writes = 0
    /\ n_rebuild = 0
    /\ dirty = FALSE
    /\ NoRun
    /\ mirror = [m \in Sources |-> "ok"]
    /\ NoTools

CheckIntegrity ==
    /\ chk_ret = NoChk
    /\ chk_ret' = check_bundle_integrity(files, index, meta)
    /\ UNCHANGED <<files, index, meta, gi_ret, idxvars, dlvars, out_files, exp_ret,
                   n_exports, fmt_sentence, fmt_source, fmt_ret, cliv>>

ChkNext == CheckIntegrity

SpecChk == ChkInit /\ [][ChkNext]_vars

\* -------------------------------------------------------- SpecFmt actions

\* The values of from_who and from: missing (or null), empty, blank, 'null',
\* ' null', a name.
FmtWho == {<<>>, <<<<>>>>, <<<<" ">>>>, <<NullText>>, <<<<" ">> \o NullText>>,
           <<<<"a", "n", "n">>>>}

FmtFrom == {<<>>, <<<<>>>>, <<<<" ", "\t">>>>, <<NullText>>, <<NullText \o <<" ">>>>,
            <<<<"b", "a", "r">>>>}

FmtHitokoto == {<<>>, <<"str", <<"f", "o", "o">>>>, <<"num", 0>>}

FmtSentences ==
    {[dict |-> TRUE, id |-> <<1>>, uuid |-> <<"u1">>, type |-> <<"a">>,
      hitokoto |-> h, length |-> <<>>, from_who |-> w, from |-> f] :
        h \in FmtHitokoto, w \in FmtWho, f \in FmtFrom}

FmtInit ==
    /\ DiskInit
    /\ NoRun
    /\ mirror = [m \in Sources |-> "ok"]
    /\ out_files = NoOut
    /\ exp_ret = NoExp
    /\ n_exports = 0
    /\ chk_ret = NoChk
    /\ fmt_sentence \in FmtSentences
    /\ fmt_source \in BOOLEAN
    /\ fmt_ret = <<"none">>
    /\ NoCommand

FormatSentence ==
    /\ fmt_ret = <<"none">>
    /\ fmt_ret' = format_sentence_output(fmt_sentence, fmt_source)
    /\ UNCHANGED <<files, index, meta, gi_ret, idxvars, dlvars, out_files, exp_ret,
                   n_exports, chk_ret, fmt_sentence, fmt_source, cliv>>

\* main, lines 427-432: the same record and flag through the remote API
\* client's formatter.
FormatHitokoto ==
    /\ api_ret = <<"none">>
    /\ api_ret' = format_hitokoto_output(fmt_sentence, fmt_source)
    /\ UNCHANGED <<files, index, meta, gi_ret, idxvars, dlvars, exvars, command,
                   main_ret, exit_status, procs>>

FmtNext ==
    \/ FormatSentence
    \/ FormatHitokoto

SpecFmt == FmtInit /\ [][FmtNext]_vars

\* ------------------------------------------------------- SpecLook actions

\* What a category file can be when a lookup runs: missing, truncated, a
\* JSON object, or a list.
LookFileStates == {NoFile, <<"garbage">>, <<"object">>} \cup {<<"list", p>> : p \in ExpPayloads}

\* The category files now on disk: a.json and b.json in any of the states.
LookFiles ==
    {[t \in Types |-> IF t = "a" THEN fa ELSE IF t = "b" THEN fb ELSE NoFile] :
        fa \in LookFileStates, fb \in LookFileStates}

\* An index built by generate_index_file from an earlier content of a.json
\* and b.json, and the category files as downloads, deletions and damage
\* have left them since.
LookInit ==
    /\ index \in {generate_index_file(
                      SaveFile(SaveFile(NoFiles, "a", p), "b", q), NoFile).index :
                  p \in ExpPayloads, q \in ExpPayloads}
    /\ files \in LookFiles
    /\ meta = NoFile
    /\ gi_ret = NoGi
    /\ q_ret = NoRet
    /\ last_op = "init"
    /\ n_writes = 0
    /\ n_rebuild = 0
    /\ dirty = TRUE
    /\ NoRun
    /\ mirror = [m \in Sources |-> "ok"]
    /\ NoTools

LookNext ==
    \/ LookupId
    \/ LookupUuid

SpecLook == LookInit /\ [][LookNext]_vars

\* -------------------------------------------------------- SpecCli actions

\* The package info of the bundles the program is run on: none, the one of
\* the download that left the category files, or one that lists b.json too.
CliMetas(fs) ==
    {NoFile, <<"json", PackageInfo(fs)>>, <<"json", ChkInfo(2, 1)>>}

\* A bundle directory, with or without package info, with the index built
\* from its files or none; no run of the program yet.
CliInit ==
    /\ files \in ExpFiles
    /\ meta \in CliMetas(files)
    /\ index \in {NoFile, generate_index_file(files, NoFile).index}
    /\ gi_ret = NoGi
    /\ q_ret = NoRet
    /\ last_op = "init"
    /\ n_writes = 0
    /\ n_rebuild = 0
    /\ dirty = FALSE
    /\ NoRun
    /\ mirror = [m \in Sources |-> "ok"]
    /\ NoTools

\* What a run of main leaves: the operation, main's value, the status.
Ran(cmd, ret) ==
    /\ command' = cmd
    /\ main_ret' = ret
    /\ exit_status' = ExitStatus(ret)
    /\ UNCHANGED <<procs, api_ret>>

\* main, lines 236-251: -c
MainCheckBundle ==
    /\ IF ~check_bundle_exists(meta)
       THEN /\ Ran("check-bundle", <<1>>)
            /\ UNCHANGED chk_ret
       ELSE LET r == check_bundle_integrity(files, index, meta) IN
            /\ chk_ret' = r
            /\ Ran("check-bundle", IF r.ok THEN <<0>> ELSE <<1>>)
    /\ UNCHANGED <<files, index, meta, gi_ret, idxvars, dlvars, out_files, exp_ret,
                   n_exports, fmt_sentence, fmt_source, fmt_ret>>

\* main, lines 254-273: -d, with shutil.rmtree succeeding
MainDeleteBundle ==
    /\ files' = NoFiles
    /\ index' = NoFile
    /\ meta' = NoFile
    /\ Ran("delete-bundle", <<0>>)
    /\ UNCHANGED <<gi_ret, idxvars, dlvars, exvars>>

\* main, lines 276-292: -u.  update_package_info_and_index is called without
\* its download_info argument: the call raises TypeError before the function
\* body runs, and the except clause prints the failure and returns 1.
MainUpdateIndex ==
    /\ Ran("update-index", <<1>>)
    /\ UNCHANGED <<files, index, meta, gi_ret, idxvars, dlvars, exvars>>

\* main, lines 295-305: -e with a count that int() refuses
MainBadCount ==
    /\ Ran("export", <<1>>)
    /\ UNCHANGED <<files, index, meta, gi_ret, idxvars, dlvars, exvars>>

\* What -i is given: a number or a uuid.
CliIds == {<<"id", 1>>, <<"id", 3>>, <<"uuid", "u2">>, <<"uuid", "u5">>}

\* main, lines 342-409: a quote from the local bundle, by -i or at random,
\* printed through format_sentence_output.
MainLocalQuote ==
    /\ \E force_bundle \in BOOLEAN, include_source \in BOOLEAN :
        IF ~check_bundle_exists(meta)
        THEN /\ force_bundle
             /\ Ran("quote", <<1>>)
             /\ UNCHANGED <<q_ret, last_op, fmt_sentence, fmt_source, fmt_ret>>
        ELSE \E sentence_id \in CliIds \cup {<<"random", 0>>}, ty \in QueryTypes,
                hi \in QueryBounds :
             \E k \in Choices(Len(get_sentences_by_type(index, ty, <<>>, hi))) :
             LET sentence ==
                    CASE sentence_id[1] = "id" ->
                            get_sentence_by_id(files, index, sentence_id[2])
                      [] sentence_id[1] = "uuid" ->
                            get_sentence_by_uuid(files, index, sentence_id[2])
                      [] OTHER ->
                            get_random_sentence(files, index, ty, <<>>, hi, k)
             IN  /\ q_ret' = [op |-> sentence_id[1], arg |-> <<sentence_id[2]>>,
                               val |-> sentence]
                 /\ last_op' = "lookup"
                 /\ IF sentence = <<>>
                    THEN /\ Ran("quote", <<1>>)
                         /\ UNCHANGED <<fmt_sentence, fmt_source, fmt_ret>>
                    ELSE LET output == format_sentence_output(sentence[1], include_source) IN
                         /\ fmt_sentence' = sentence[1]
                         /\ fmt_source' = include_source
                         /\ fmt_ret' = output
                         /\ Ran("quote", IF output = <<"raise">> THEN <<>> ELSE <<0>>)
    /\ UNCHANGED <<files, index, meta, gi_ret, n_writes, n_rebuild, dirty, dlvars,
                   out_files, exp_ret, n_exports, chk_ret>>

\* main, lines 342-360 and 411-438: a quote from the remote API, asked for
\* with -a or because there is no bundle; get_hitokoto_from_api returns a
\* quote or None.
MainApiQuote ==
    /\ \E reachable \in BOOLEAN :
        Ran("api", IF reachable THEN <<0>> ELSE <<1>>)
    /\ UNCHANGED <<files, index, meta, gi_ret, idxvars, dlvars, exvars>>

CliNext ==
    \/ MainCheckBundle
    \/ MainDeleteBundle
    \/ MainUpdateIndex
    \/ MainBadCount
    \/ MainLocalQuote
    \/ MainApiQuote

SpecCli == CliInit /\ [][CliNext]_vars

\* ----------------------------------------------------------- the mirrors

\* What a request to a mirror can come to: a JSON array, HTTP 404, another
\* network failure (a timeout, a non-2xx status), a body that is not JSON, a
\* JSON body that is not an array.
Kinds == {"ok", "notfound", "neterr", "badjson", "notlist"}

\* How a mirror answers every request of a run, glitches apart.
Modes == {"ok", "notfound", "neterr"}

\* The categories a mirror that holds only a part of the bundle answers 404 for.
Lacking == {"l"}

\* The mirrors of a run: each in one of the modes, or the of mirror holding a
\* part of the bundle and the other two in one mode.
MirrorStates ==
    [Sources -> Modes]
    \cup {[m \in Sources |-> IF m = "of" THEN "partial" ELSE o] : o \in Modes}

\* The array mirror m serves for category t: the mirrors are out of step.
Served(m, t) ==
    CASE m = "of"  -> <<RecA>>
      [] m = "gh"  -> <<RecA, RecNoType>>
      [] m = "jsd" -> <<>>

\* The error text of a failed download_sentence_file, as the words the callers
\* search it for.  Only a 404 response's text holds "404" or "Not Found".
ErrorText(kind) ==
    CASE kind = "notfound" -> <<"network request failed", "404", "Not Found">>
      [] kind = "neterr"   -> <<"network request failed", "timed out">>
      [] kind = "badjson"  -> <<"JSON decode failed">>
      [] kind = "notlist"  -> <<"not a JSON array">>
      [] OTHER             -> <<>>

\* The answer mirror m gives to a request for the current category when
\* nothing goes wrong on the way.
ModeAnswer(m) ==
    IF mirror[m] = "partial"
    THEN (IF sentence_types[type_idx] \in Lacking THEN "notfound" ELSE "ok")
    ELSE mirror[m]

\* The answers a request to mirror m can get now.
Answers(m) == IF glitches < MaxGlitches THEN Kinds ELSE {ModeAnswer(m)}

Glitch(m, kind) == IF kind = ModeAnswer(m) THEN 0 ELSE 1

\* ---------------------------------------------------------- bundle_get.py

\* download_sentence_file with the mirror answering `kind`: the category
\* files afterwards and the returned (success, count, error).
download_sentence_file(fs, m, t, kind) ==
    IF kind = "ok"
    THEN [files |-> SaveFile(fs, t, Served(m, t)),
          ret   |-> [ok |-> TRUE, count |-> Len(Served(m, t)), error |-> <<>>]]
    ELSE [files |-> fs,
          ret   |-> [ok |-> FALSE, count |-> 0, error |-> ErrorText(kind)]]

\* A 404 test that never recognises one.
Is404Never(error) == FALSE

\* "404" in str(error) or "Not Found" in str(error)
Is404(error) == \E i \in 1..Len(error) : error[i] \in {"404", "Not Found"}

RECURSIVE Without(_, _)
Without(s, x) ==
    IF s = <<>> THEN <<>>
    ELSE (IF Head(s) = x THEN <<>> ELSE <<Head(s)>>) \o Without(Tail(s), x)

\* A retry order that comes back to the primary source twice.
RetryOrderTwice(primary_source) == Without(SourceOrder, primary_source) \o <<primary_source, primary_source>>

\* A retry order that leaves out the last attempt on the primary source.
RetryOrderNoRepeat(primary_source) == Without(SourceOrder, primary_source)

\* download_single_file_with_retry: retry_order
RetryOrder(primary_source) == Without(SourceOrder, primary_source) \o <<primary_source>>

\* A try order that appends jsd whatever the source.
TryOrderNoGuard(src) ==
    IF src = "gh" THEN <<"gh", "jsd", "of">>
    ELSE <<src, "gh", "jsd">> \o (IF src # "of" THEN <<"of">> ELSE <<>>)

\* get_bundle: try_order
TryOrder(src) ==
    IF src = "gh" THEN <<"gh", "jsd", "of">>
    ELSE <<src, "gh">> \o (IF src # "jsd" THEN <<"jsd">> ELSE <<>>)
                       \o (IF src # "of" THEN <<"of">> ELSE <<>>)

\* A loop that passes the first source of the try order every time.
TrySourceFirst == try_order[1]

\* get_bundle's loop variable try_source, which download_bundle_from_source
\* hands to every download_single_file_with_retry call as the primary source.
TrySource == try_order[try_idx]

\* A loop variable that stays on the first category.
SentenceTypeFirst == sentence_types[1]

\* download_bundle_from_source: the loop variable sentence_type
SentenceType == sentence_types[type_idx]

\* The requests get_bundle accepts, and one it refuses.
Requests == Sources \cup {"xx"}

\* The category files an earlier download left.
PriorFiles == SaveFile(NoFiles, "a", <<RecNoType>>)

\* The bundle directory as an earlier get_bundle run left it.
PriorBundle ==
    /\ files = PriorFiles
    /\ index = generate_index_file(PriorFiles, NoFile).index
    /\ meta = <<"json", PackageInfo(PriorFiles)>>
    /\ gi_ret = NoGi
    /\ q_ret = NoRet
    /\ last_op = "init"
    /\ n_writes = 0
    /\ n_rebuild = 0
    /\ dirty = FALSE

\* get_bundle starts on an empty bundle directory or on an earlier bundle.
GetInit ==
    /\ (DiskInit \/ PriorBundle)
    /\ NoRun
    /\ NoTools
    /\ mirror \in MirrorStates

\* main, lines 195-232: what main returns once get_bundle has returned.
MainAfterGetBundle(ret) == IF ret.ok THEN <<0>> ELSE <<1>>

\* get_bundle up to the first request of the first pass.  The command line
\* takes of, gh and jsd only (`-g` has choices); any other source comes from
\* a direct call.
StartGetBundle ==
    /\ pc = "idle"
    /\ \E src \in Requests :
        /\ source' = src
        /\ IF src \notin Sources
           THEN /\ gb_ret' = [ok |-> FALSE, info |-> NoInfo, error |-> <<"unsupported source", src>>]
                /\ pc' = "returned"
                /\ UNCHANGED <<try_order, try_idx, type_idx, command>>
           ELSE /\ try_order' = TryOrder(src)
                /\ try_idx' = 1
                /\ type_idx' = 1
                /\ pc' = "primary"
                /\ command' = "get-bundle"
                /\ UNCHANGED gb_ret
    /\ UNCHANGED <<files, index, meta, gi_ret, idxvars, mirror, glitches, retry_idx,
                   downloaded_files, total_sentences, failed_types, source_usage,
                   last_error, dsf_ret, dbs_ret, attempts, calls, passes,
                   in_flight, hard_failed, exvars, main_ret, exit_status, procs,
                   api_ret>>

\* The body of download_bundle_from_source's loop once
\* download_single_file_with_retry has returned (ok, count, used, error).
Record(ok, count, used, error) ==
    /\ dsf_ret' = [type |-> SentenceType, ok |-> ok, count |-> count,
                   used |-> used, error |-> error]
    /\ IF ok
       THEN /\ downloaded_files' = Append(downloaded_files,
                    [name |-> FileName(SentenceType), amount |-> count, source |-> used])
            /\ total_sentences' = total_sentences + count
            /\ source_usage' = [source_usage EXCEPT ![used] = @ + 1]
            /\ UNCHANGED <<failed_types, hard_failed>>
       ELSE /\ failed_types' = Append(failed_types, SentenceType)
            /\ hard_failed' = IF Is404(error) THEN hard_failed
                               ELSE Append(hard_failed, SentenceType)
            /\ UNCHANGED <<downloaded_files, total_sentences, source_usage>>
    /\ IF type_idx < Len(sentence_types)
       THEN /\ type_idx' = type_idx + 1
            /\ pc' = "primary"
       ELSE /\ pc' = "end_pass"
            /\ UNCHANGED type_idx
    /\ retry_idx' = 0

\* The mirror the next request of the current call goes to.
Target == IF pc = "primary" THEN TrySource ELSE RetryOrder(TrySource)[retry_idx]

\* A request that was answered and forgotten all the same.
LandedKeep(flight, req) == flight

\* requests.get has returned: the request is no longer in flight.
Landed(flight, req) == flight \ {req}

\* download_sentence_file, line 98: requests.get sends the request for the
\* current category to the next mirror, and the program waits for the answer.
SendRequest ==
    /\ pc \in {"primary", "retry"}
    /\ <<SentenceType, Target>> \notin in_flight
    /\ in_flight' = in_flight \cup {<<SentenceType, Target>>}
    /\ UNCHANGED <<files, index, meta, gi_ret, idxvars, mirror, glitches, pc, source,
                   try_order, try_idx, type_idx, retry_idx, downloaded_files,
                   total_sentences, failed_types, source_usage, last_error, dsf_ret,
                   dbs_ret, gb_ret, attempts, calls, passes, hard_failed, toolvars>>

\* download_single_file_with_retry, lines 140-164: the first attempt, on the
\* primary source, from the answer on.
FetchPrimary ==
    /\ pc = "primary"
    /\ <<SentenceType, TrySource>> \in in_flight
    /\ in_flight' = Landed(in_flight, <<SentenceType, TrySource>>)
    /\ \E kind \in Answers(TrySource) :
        LET r == download_sentence_file(files, TrySource, SentenceType, kind) IN
        /\ glitches' = glitches + Glitch(TrySource, kind)
        /\ files' = r.files
        /\ attempts' = <<[type |-> SentenceType, mirror |-> TrySource, kind |-> kind]>>
        /\ calls' = Append(calls, <<SentenceType, TrySource>>)
        /\ IF r.ret.ok
           THEN Record(TRUE, r.ret.count, TrySource, <<>>)
           ELSE IF Is404(r.ret.error)
           THEN Record(FALSE, 0, TrySource, r.ret.error)
           ELSE /\ pc' = "retry"
                /\ retry_idx' = 1
                /\ UNCHANGED <<type_idx, downloaded_files, total_sentences,
                               failed_types, source_usage, dsf_ret, hard_failed>>
    /\ UNCHANGED <<index, meta, gi_ret, idxvars, mirror, source, try_order, try_idx,
                   last_error, dbs_ret, gb_ret, passes, toolvars>>

\* download_single_file_with_retry, lines 167-185: one turn of the loop over
\* retry_order, from the answer on.
FetchRetry ==
    /\ pc = "retry"
    /\ <<SentenceType, Target>> \in in_flight
    /\ in_flight' = Landed(in_flight, <<SentenceType, Target>>)
    /\ LET m == RetryOrder(TrySource)[retry_idx] IN
       \E kind \in Answers(m) :
        LET r == download_sentence_file(files, m, SentenceType, kind) IN
        /\ glitches' = glitches + Glitch(m, kind)
        /\ files' = r.files
        /\ attempts' = Append(attempts, [type |-> SentenceType, mirror |-> m, kind |-> kind])
        /\ IF r.ret.ok
           THEN Record(TRUE, r.ret.count, m, <<>>)
           ELSE IF retry_idx < Len(RetryOrder(TrySource))
           THEN /\ retry_idx' = retry_idx + 1
                /\ UNCHANGED <<pc, type_idx, downloaded_files, total_sentences,
                               failed_types, source_usage, dsf_ret, hard_failed>>
           ELSE Record(FALSE, 0, TrySource, <<"all sources failed, last error">> \o r.ret.error)
    /\ UNCHANGED <<index, meta, gi_ret, idxvars, mirror, source, try_order, try_idx,
                   last_error, dbs_ret, gb_ret, calls, passes, toolvars>>

\* A download_info that counts every category as obtained.
DownloadInfoAllFiles ==
    [source       |-> TrySource,
     source_url   |-> SourceBase(TrySource),
     files_amount |-> Len(sentence_types),
     files        |-> downloaded_files,
     amount       |-> total_sentences,
     source_usage |-> source_usage,
     failed_types |-> failed_types]

\* download_bundle_from_source, lines 249-259
DownloadInfo ==
    [source       |-> TrySource,
     source_url   |-> SourceBase(TrySource),
     files_amount |-> Len(downloaded_files),
     files        |-> downloaded_files,
     amount       |-> total_sentences,
     source_usage |-> source_usage,
     failed_types |-> failed_types]

\* download_bundle_from_source, lines 279-289: the third member of the tuple
PassMessage ==
    IF Len(downloaded_files) = Len(sentence_types) THEN <<>>
    ELSE <<"partial success", Len(sentence_types), Len(downloaded_files)>>

\* What get_bundle returns after a pass that obtained files (line 344).
GetBundleSuccess == [ok |-> TRUE, info |-> DownloadInfo, error |-> <<>>]

\* download_bundle_from_source from line 243 on, and get_bundle's handling of
\* what it returned: update_package_info_and_index and the return, or the
\* next source of the try order.
EndPass ==
    /\ pc = "end_pass"
    /\ passes' = Append(passes, Len(downloaded_files))
    /\ IF downloaded_files = <<>>
       THEN /\ dbs_ret' = [ok |-> FALSE, info |-> NoInfo, error |-> <<"nothing downloaded">>]
            /\ last_error' = <<"nothing downloaded">>
            /\ UNCHANGED <<meta, index, gi_ret, dirty>>
            /\ IF try_idx < Len(try_order)
               THEN /\ try_idx' = try_idx + 1
                    /\ type_idx' = 1
                    /\ downloaded_files' = <<>>
                    /\ total_sentences' = 0
                    /\ failed_types' = <<>>
                    /\ hard_failed' = <<>>
                    /\ source_usage' = [m \in Sources |-> 0]
                    /\ pc' = "primary"
                    /\ UNCHANGED <<gb_ret, main_ret, exit_status>>
               ELSE /\ gb_ret' = [ok |-> FALSE, info |-> NoInfo,
                                  error |-> <<"all sources failed, last error", "nothing downloaded">>]
                    /\ main_ret' = MainAfterGetBundle(gb_ret')
                    /\ exit_status' = ExitStatus(main_ret')
                    /\ pc' = "returned"
                    /\ UNCHANGED <<try_idx, type_idx, downloaded_files, total_sentences,
                                   failed_types, source_usage, hard_failed>>
       ELSE /\ dbs_ret' = [ok |-> TRUE, info |-> DownloadInfo, error |-> PassMessage]
            /\ meta' = <<"json", DownloadInfo>>
            /\ LET r == generate_index_file(files, index) IN
                /\ index' = r.index
                /\ gi_ret' = r.ret
                /\ dirty' = ~r.ret.ok
            /\ gb_ret' = GetBundleSuccess
            /\ main_ret' = MainAfterGetBundle(gb_ret')
            /\ exit_status' = ExitStatus(main_ret')
            /\ pc' = "returned"
            /\ UNCHANGED <<try_idx, type_idx, downloaded_files, total_sentences,
                           failed_types, source_usage, last_error, hard_failed>>
    /\ UNCHANGED <<files, q_ret, last_op, n_writes, n_rebuild, mirror, glitches,
                   source, try_order, retry_idx, dsf_ret, attempts, calls, in_flight,
                   exvars, command, procs, api_ret>>

Next ==
    \/ StartGetBundle
    \/ SendRequest
    \/ FetchPrimary
    \/ FetchRetry
    \/ EndPass

Spec == GetInit /\ [][Next]_vars

\* The run goes on as long as it has a statement to run: the program is one
\* sequential loop, and requests.get is called with timeout=30, so a request
\* in flight comes back with an answer, an error or a timeout.
SpecLive == Spec /\ WF_vars(Next)

\* ------------------------------------------------------ SpecCrash actions

\* A category file whose text stops short: not JSON.
Truncated == <<"garbage">>

\* download_sentence_file, lines 106-107: the process dies after open(...,
\* 'w') has emptied the category's file and before json.dump has written
\* the whole array.
CrashMidWrite ==
    /\ pc \in {"primary", "retry"}
    /\ <<SentenceType, Target>> \in in_flight
    /\ "ok" \in Answers(Target)
    /\ glitches' = glitches + Glitch(Target, "ok")
    /\ in_flight' = Landed(in_flight, <<SentenceType, Target>>)
    /\ files' = [files EXCEPT ![SentenceType] = Truncated]
    /\ pc' = "crashed"
    /\ UNCHANGED <<index, meta, gi_ret, idxvars, mirror, source, try_order, try_idx,
                   type_idx, retry_idx, downloaded_files, total_sentences,
                   failed_types, source_usage, last_error, dsf_ret, dbs_ret, gb_ret,
                   attempts, calls, passes, hard_failed, toolvars>>

\* The next run of the program checks the bundle the crash left.
CheckAfterCrash ==
    /\ pc = "crashed"
    /\ CheckIntegrity

CrashNext ==
    \/ StartGetBundle
    \/ SendRequest
    \/ FetchPrimary
    \/ FetchRetry
    \/ EndPass
    \/ CrashMidWrite
    \/ CheckAfterCrash

SpecCrash == GetInit /\ [][CrashNext]_vars

\* -------------------------------------------------------- SpecRun actions

\* `--check-bundle` once get_bundle has returned, nothing else having written
\* to the bundle directory.
CheckAfterReturn ==
    /\ pc = "returned"
    /\ CheckIntegrity

RunNext ==
    \/ StartGetBundle
    \/ SendRequest
    \/ FetchPrimary
    \/ FetchRetry
    \/ EndPass
    \/ CheckAfterReturn

SpecRun == GetInit /\ [][RunNext]_vars

\* ------------------------------------------------------- SpecRace actions

\* The mirror each of the two runs was started with: `-g of` and `-g gh`.
RaceSource(p) == IF p = 1 THEN "of" ELSE "gh"

\* A report that lists no file.
RaceInfoNoFiles(p) ==
    [source       |-> RaceSource(p),
     source_url   |-> SourceBase(RaceSource(p)),
     files_amount |-> 0,
     files        |-> <<>>,
     amount       |-> 0,
     source_usage |-> [m \in Sources |-> 0],
     failed_types |-> <<>>]

\* download_bundle_from_source, lines 249-259, in run p
RaceInfo(p) ==
    [source       |-> RaceSource(p),
     source_url   |-> SourceBase(RaceSource(p)),
     files_amount |-> Len(procs[p].downloaded_files),
     files        |-> procs[p].downloaded_files,
     amount       |-> procs[p].total_sentences,
     source_usage |-> [m \in Sources |-> IF m = RaceSource(p)
                                          THEN Len(procs[p].downloaded_files) ELSE 0],
     failed_types |-> <<>>]

\* The two runs start on an empty bundle directory, every mirror answering.
RaceInit ==
    /\ DiskInit
    /\ NoRun
    /\ NoTools
    /\ mirror = [m \in Sources |-> "ok"]

\* get_bundle up to the first request, in run p.
RaceStart(p) ==
    /\ procs[p].pc = "idle"
    /\ procs' = [procs EXCEPT ![p].pc = "fetch", ![p].type_idx = 1]
    /\ UNCHANGED <<files, index, meta, gi_ret, idxvars, dlvars, exvars, command,
                   main_ret, exit_status, api_ret>>

\* One turn of download_bundle_from_source's loop in run p: the primary
\* mirror answers, download_sentence_file rewrites the category's file
\* (open(file_path, 'w') and json.dump, with no lock) and the loop records
\* the count of the array it received.
RaceFetch(p) ==
    /\ procs[p].pc = "fetch"
    /\ LET t == sentence_types[procs[p].type_idx]
           r == download_sentence_file(files, RaceSource(p), t, "ok")
       IN  /\ files' = r.files
           /\ procs' = [procs EXCEPT
                  ![p].downloaded_files = Append(@, [name |-> FileName(t),
                                                     amount |-> r.ret.count,
                                                     source |-> RaceSource(p)]),
                  ![p].total_sentences = @ + r.ret.count,
                  ![p].type_idx = IF @ < Len(sentence_types) THEN @ + 1 ELSE @,
                  ![p].pc = IF procs[p].type_idx < Len(sentence_types)
                            THEN "fetch" ELSE "save"]
    /\ UNCHANGED <<index, meta, gi_ret, idxvars, dlvars, exvars, command, main_ret,
                   exit_status, api_ret>>

\* update_package_info_and_index in run p: save_package_info
RaceSaveInfo(p) ==
    /\ procs[p].pc = "save"
    /\ meta' = <<"json", RaceInfo(p)>>
    /\ procs' = [procs EXCEPT ![p].pc = "index"]
    /\ UNCHANGED <<files, index, gi_ret, idxvars, dlvars, exvars, command, main_ret,
                   exit_status, api_ret>>

\* update_package_info_and_index in run p: generate_index_file, and
\* get_bundle's return (line 344).
RaceIndex(p) ==
    /\ procs[p].pc = "index"
    /\ LET r == generate_index_file(files, index) IN
        /\ index' = r.index
        /\ gi_ret' = r.ret
        /\ dirty' = ~r.ret.ok
    /\ procs' = [procs EXCEPT ![p].pc = "returned", ![p].ok = TRUE]
    /\ UNCHANGED <<files, meta, q_ret, last_op, n_writes, n_rebuild, dlvars, exvars,
                   command, main_ret, exit_status, api_ret>>

RaceNext ==
    \E p \in Procs :
        \/ RaceStart(p)
        \/ RaceFetch(p)
        \/ RaceSaveInfo(p)
        \/ RaceIndex(p)

SpecRace == RaceInit /\ [][RaceNext]_vars

\* ---------------------------------------------- claims on the downloader

\* The download_single_file_with_retry call that `attempts` logs has returned.
CallReturned == attempts # <<>> /\ pc # "retry" /\ dsf_ret.type = attempts[1].type

LastAttempt == attempts[Len(attempts)]

\* C2: when the first attempt, on the primary mirror, is answered 404, the
\* call makes no other fetch and returns that failure at once.
C2_NotFoundNoRetry ==
    (attempts # <<>> /\ attempts[1].kind = "notfound") =>
        /\ Len(attempts) = 1
        /\ CallReturned
        /\ ~dsf_ret.ok
        /\ dsf_ret.count = 0
        /\ dsf_ret.error = ErrorText("notfound")

C2_Witness ==
    /\ attempts # <<>>
    /\ attempts[1].kind = "notfound"
    /\ CallReturned
    /\ \E m \in Sources : m # attempts[1].mirror /\ mirror[m] = "ok"

\* The attempts of a call whose primary mirror fails other than by 404: the
\* primary, the other mirrors in the registry's order (of, gh, jsd), the
\* primary again.
ExpectedAttempts(primary) ==
    CASE primary = "of"  -> <<"of", "gh", "jsd", "of">>
      [] primary = "gh"  -> <<"gh", "of", "jsd", "gh">>
      [] primary = "jsd" -> <<"jsd", "of", "gh", "jsd">>

C4_PartialHasMessage ==
    (pc = "returned" /\ gb_ret.ok) =>
        (gb_ret.error # <<>>) = (gb_ret.info.files_amount < NTypes)

\* C5 as claimed: a returned run has made exactly 12 calls, for a..l in
\* order, each with the first mirror of the try order as its primary.
C5_OnePassFirstMirror ==
    (pc = "returned" /\ source \in Sources) =>
        /\ Len(calls) = NTypes
        /\ \A i \in 1..Len(calls) : calls[i] = <<sentence_types[i], try_order[1]>>

\* C5 amended: the calls of a run come in passes of 12, for a..l in order;
\* the k-th pass uses the k-th mirror of the try order as every call's
\* primary, and a further pass is made only after a pass that obtained no
\* category.
C5_PassesInOrder ==
    /\ \A j \in 1..Len(calls) :
        calls[j] = <<sentence_types[((j - 1) % NTypes) + 1],
                     try_order[((j - 1) \div NTypes) + 1]>>
    /\ Len(calls) <= NTypes * Len(try_order)
    /\ \A k \in 1..Len(passes) : k < Len(passes) => passes[k] = 0
    /\ Len(calls) > NTypes * Len(passes) => \A k \in 1..Len(passes) : passes[k] = 0
    /\ (pc = "returned" /\ source \in Sources) =>
        /\ Len(calls) = NTypes * Len(passes)
        /\ gb_ret.ok = (passes[Len(passes)] > 0)
        /\ ~gb_ret.ok => Len(passes) = Len(try_order)

C5_Witness ==
    /\ pc = "returned"
    /\ gb_ret.ok
    /\ passes = <<0, NTypes>>
    /\ Len(calls) = 2 * NTypes
    /\ calls[NTypes + 1] = <<"a", "gh">>

\* C6: the try order is [gh, jsd, of] for gh, and otherwise the requested
\* mirror, gh, and the mirror not yet listed: a permutation of the three
\* mirrors that starts with the requested one.
C6_TryOrder ==
    (pc # "idle" /\ source \in Sources) =>
        /\ try_order = CASE source = "gh"  -> <<"gh", "jsd", "of">>
                         [] source = "of"  -> <<"of", "gh", "jsd">>
                         [] source = "jsd" -> <<"jsd", "gh", "of">>
        /\ Len(try_order) = 3
        /\ {try_order[i] : i \in 1..3} = Sources
        /\ try_order[1] = source

C6_Witness ==
    /\ pc = "primary"
    /\ source = "jsd"
    /\ try_order = <<"jsd", "gh", "of">>

\* ------------------------------------------------- claims on the index

\* The index is the result of a successful rebuild of the files now on disk.
Fresh == ~dirty /\ Exists(index) /\ gi_ret.ok

IndexItems == load_index_file(index)

Records(t) == IF Exists(files[t]) /\ files[t][1] = "list"
              THEN {files[t][2][i] : i \in 1..Len(files[t][2])} ELSE {}

\* Record r of category file t has its entry in the index.
Indexed(r, t) ==
    /\ r \in Records(t)
    /\ r.dict
    /\ \E i \in 1..Len(IndexItems) : IndexItems[i] = IndexEntry(r, t)

\* No two index entries share an id or a uuid (the data model's uniqueness).
UniqueKeys ==
    \A i, j \in 1..Len(IndexItems) :
        (IndexItems[i].id = IndexItems[j].id \/ IndexItems[i].uuid = IndexItems[j].uuid)
            => i = j

\* C1: after a rebuild, a lookup by the id (by the uuid) of an indexed record r
\* returns r, whatever r's type field and whichever category file holds it
\* (stated for bundles whose ids and uuids are unique).
C1_LookupFindsIndexed ==
    (Fresh /\ UniqueKeys /\ q_ret.op \in {"id", "uuid"}) =>
        \A t \in Types : \A r \in Records(t) :
            (Indexed(r, t) /\ r[q_ret.op] = q_ret.arg) => q_ret.val = <<r>>

\* C7: a rebuild that follows a rebuild, with no category file written in
\* between, leaves the index content and the returned count as they were.
C7_RebuildIdempotent ==
    [][(n_rebuild >= 1 /\ n_rebuild' = n_rebuild + 1)
         => (index' = index /\ gi_ret' = gi_ret)]_vars

C7_Witness ==
    /\ n_rebuild = 2
    /\ gi_ret.ok
    /\ Len(IndexItems) >= 2

\* The entries the category files on disk give: one per record that is an
\* object with an id, a uuid and a text whose length can be taken.
Projection ==
    UNION {{IndexEntry(r, t) : r \in {x \in Records(t) : x.dict /\ ~LenRaises(x)}} : t \in Types}

ValidProjection == {e \in Projection : EntryValid(e)}

IndexSet == {IndexItems[i] : i \in 1..Len(IndexItems)}

\* C8: when a rebuild call has returned, the index holds exactly the entries
\* derivable from the category files on disk.
C8_IndexIsProjection ==
    last_op = "rebuild" => IndexSet = ValidProjection

\* The number of records of category file t that are objects with an id, a
\* uuid and a text whose length can be taken.
ValidRecords(t) ==
    IF Exists(files[t]) /\ files[t][1] = "list"
    THEN Cardinality({i \in 1..Len(files[t][2]) :
            /\ files[t][2][i].dict
            /\ ~LenRaises(files[t][2][i])
            /\ files[t][2][i].id # <<>>
            /\ files[t][2][i].uuid \notin {<<>>, <<"">>}})
    ELSE 0

RECURSIVE SumValid(_)
SumValid(i) == IF i > Len(sentence_types) THEN 0
               ELSE ValidRecords(sentence_types[i]) + SumValid(i + 1)

C10_EntriesHaveKeys ==
    \A i \in 1..Len(IndexItems) :
        /\ IndexItems[i].id # <<>>
        /\ IndexItems[i].uuid \notin {<<>>, <<"">>}

C10_Witness ==
    /\ Fresh
    /\ last_op = "rebuild"
    /\ Records("a") = {RecNoId, RecA}
    /\ Records("b") = {RecNoUuid, RecNoType}
    /\ Len(IndexItems) = 2

\* Index item e was built from record r of category file t: its type is r's
\* when r has one and t otherwise, its file is t's relative path, its length
\* is r's when r has one and the length of r's text otherwise.
BuiltFrom(e, r, t) ==
    /\ e.id = r.id
    /\ e.uuid = r.uuid
    /\ e.type = (IF r.type # <<>> THEN r.type[1] ELSE t)
    /\ e.file = "bundle/" \o t \o ".json"
    /\ e.length = (IF r.length # <<>> THEN r.length[1]
                   ELSE IF r.hitokoto = <<>> THEN 0 ELSE Len(r.hitokoto[2]))

\* C11: every entry of a rebuilt index comes from a record of a category file,
\* with type from the record or else the file's letter, file the category
\* file's relative path, and length from the record or else the length of its
\* hitokoto text.
C11_EntryFields ==
    Fresh =>
        \A i \in 1..Len(IndexItems) :
            \E t \in Types : \E r \in Records(t) :
                r.dict /\ BuiltFrom(IndexItems[i], r, t)

C11_Witness ==
    /\ Fresh
    /\ last_op = "rebuild"
    /\ files["b"] = <<"list", <<RecA, RecNoType>>>>
    /\ IndexItems = <<[id |-> <<1>>, uuid |-> <<"u1">>, type |-> "a",
                       file |-> "bundle/b.json", length |-> 1],
                      [id |-> <<2>>, uuid |-> <<"u2">>, type |-> "b",
                       file |-> "bundle/b.json", length |-> 3]>>

\* The length of a record: its length field, or the length of its text.
RecLength(r) == IF r.length # <<>> THEN r.length[1]
                ELSE IF r.hitokoto = <<>> THEN 0 ELSE Len(r.hitokoto[2])

\* C12: a record returned by a random query has its length within the
\* query's bounds, an absent bound being no bound.
C12_RandomInBounds ==
    (q_ret.op = "random" /\ q_ret.val # <<>>) =>
        /\ (q_ret.arg[2] # <<>> => RecLength(q_ret.val[1]) >= q_ret.arg[2][1])
        /\ (q_ret.arg[3] # <<>> => RecLength(q_ret.val[1]) <= q_ret.arg[3][1])

\* ------------------------------------------------- claims on the export

\* The last step was an export_sentences_to_file call.
Exported == n_exports' = n_exports + 1

\* C13: the sentences an export writes to its output file have pairwise
\* distinct ids, and the file holds exactly their formatted texts, in order.
C13_NoDuplicateIds ==
    exp_ret.ok =>
        /\ \A i, j \in 1..Len(exp_ret.sentences) :
              exp_ret.sentences[i].id = exp_ret.sentences[j].id => i = j
        /\ out_files[exp_ret.file] =
              <<"text", [i \in 1..Len(exp_ret.sentences) |->
                           format_sentence_output(exp_ret.sentences[i],
                                                  exp_ret.include_source)[2]]>>

C13_Witness ==
    /\ exp_ret.ok
    /\ ~UniqueKeys
    /\ exp_ret.count = 5
    /\ exp_ret.available = 3
    /\ Len(exp_ret.sentences) = 2

\* C14: an export asked for more quotes than the candidate set holds succeeds
\* and writes as many quotes as the candidate set has entries.
C14_ExportsWholeSet ==
    (exp_ret.count > exp_ret.available /\ exp_ret.available > 0) =>
        /\ exp_ret.ok
        /\ Len(exp_ret.sentences) = exp_ret.available

\* C15: an export leaves every existing file of the output directory as it
\* was, and writes the requested name when it is unused and otherwise
\* name(k)ext for the smallest k >= 1 that is unused.
C15_NeverOverwrites ==
    [][Exported =>
        /\ \A p \in OutPaths : Exists(out_files[p]) => out_files'[p] = out_files[p]
        /\ exp_ret'.ok =>
            \E k \in 0..MaxCounter :
                /\ exp_ret'.file = Path(exp_ret'.wanted, k)
                /\ \A j \in 0..(k - 1) : Exists(out_files[Path(exp_ret'.wanted, j)])
                /\ ~Exists(out_files[exp_ret'.file])
                /\ {p \in OutPaths : out_files'[p] # out_files[p]} = {exp_ret'.file}]_vars

\* Two exports with the default file name: hitokoto.txt, then hitokoto(1).txt.
C15_Witness ==
    /\ n_exports = 2
    /\ exp_ret.ok
    /\ exp_ret.wanted = DefaultName
    /\ exp_ret.file = "hitokoto(1).txt"
    /\ out_files["hitokoto.txt"] \notin {NoFile, OldFile}
    /\ out_files["hitokoto(1).txt"] \notin {NoFile, OldFile}
    /\ out_files["hitokoto(2).txt"] = NoFile

\* C16: an export that fails for want of package metadata, of candidates, of
\* a resolvable entry or of a positive count leaves the output directory as
\* it was; and an export without metadata or with a count <= 0 does fail, as
\* does one that resolves no sentence.
C16_FailureWritesNothing ==
    [][Exported =>
        /\ exp_ret'.reason \in {"NoBundle", "NoMatch", "NoContent", "ValueError"} =>
              (~exp_ret'.ok /\ out_files' = out_files)
        /\ (meta = NoFile \/ exp_ret'.count <= 0) =>
              exp_ret'.reason \in {"NoBundle", "NoMatch", "NoContent", "ValueError"}
        /\ exp_ret'.ok => (exp_ret'.available > 0 /\ exp_ret'.sentences # <<>>)]_vars

C16_Witness ==
    /\ n_exports = 2
    /\ exp_ret.reason = "NoContent"
    /\ exp_ret.count = 5
    /\ exp_ret.available = 1
    /\ meta # NoFile
    /\ out_files = NoOut

\* ---------------------------------------- claims on the integrity check

\* check_bundle_integrity has been called.
Checked == chk_ret # NoChk

Listed == IF Exists(meta) /\ meta[1] = "json" THEN meta[2].files ELSE <<>>

\* The file of the i-th entry of the metadata.
ListedFile(i) == files[CHOOSE t \in Types : t \o ".json" = Listed[i].name]

Missing(i) == ListedFile(i) = NoFile

Unreadable(i) == ListedFile(i) = <<"garbage">>

\* The number of elements of a decoded file, 0 for a value without elements.
Elements(f) == IF f[1] = "list" THEN Len(f[2]) ELSE 0

Mismatch(i) ==
    /\ ~Missing(i)
    /\ ~Unreadable(i)
    /\ Elements(ListedFile(i)) # Listed[i].amount

IssuesOf(kind) == {j \in 1..Len(chk_ret.issues) : chk_ret.issues[j][1] = kind}

\* C17: a check with metadata reports, in one list, exactly one issue for
\* each listed file that is missing, differs in count or cannot be decoded,
\* plus MissingIndex when the index is absent, and passes exactly when the
\* list is empty.
C17_AllIssuesListed ==
    (Checked /\ Exists(meta) /\ meta[1] = "json") =>
        /\ chk_ret.error = <<>>
        /\ chk_ret.ok = (chk_ret.issues = <<>>)
        /\ \A i \in 1..Len(Listed) :
            /\ Missing(i) = (\E j \in IssuesOf("MissingFile") :
                                chk_ret.issues[j][2] = Listed[i].name)
            /\ Unreadable(i) = (\E j \in IssuesOf("ReadError") :
                                chk_ret.issues[j][2] = Listed[i].name)
            /\ Mismatch(i) = (\E j \in IssuesOf("CountMismatch") :
                                chk_ret.issues[j][2] = Listed[i].name)
        /\ Cardinality(IssuesOf("MissingFile")) =
              Cardinality({i \in 1..Len(Listed) : Missing(i)})
        /\ Cardinality(IssuesOf("ReadError")) =
              Cardinality({i \in 1..Len(Listed) : Unreadable(i)})
        /\ Cardinality(IssuesOf("CountMismatch")) =
              Cardinality({i \in 1..Len(Listed) : Mismatch(i)})
        /\ Cardinality(IssuesOf("MissingIndex")) = (IF index = NoFile THEN 1 ELSE 0)
        /\ \A j \in 1..Len(chk_ret.issues) :
              chk_ret.issues[j][1] \in {"MissingFile", "ReadError", "CountMismatch",
                                        "MissingIndex"}

\* Metadata listing 12 files of which only a.json is on disk, with the
\* recorded amount: 11 MissingFile issues and no other.
C17_Witness ==
    /\ Checked
    /\ Len(Listed) = NTypes
    /\ \A t \in Types : Exists(files[t]) = (t = "a")
    /\ index # NoFile
    /\ Cardinality(IssuesOf("MissingFile")) = 11
    /\ Len(chk_ret.issues) = 11
    /\ ~chk_ret.ok

\* C18: a check without package metadata fails with MissingMetadata, raises
\* no issue and looks at no category file and not at the index file.
C18_NoMetadataFailsAtOnce ==
    (Checked /\ meta = NoFile) =>
        /\ ~chk_ret.ok
        /\ chk_ret.error = <<"MissingMetadata">>
        /\ chk_ret.issues = <<>>
        /\ chk_ret.inspected = {}

C18_Witness ==
    /\ Checked
    /\ meta = NoFile
    /\ index = NoFile
    /\ files["a"] = <<"garbage">>
    /\ files["b"] = NoFile
    /\ chk_ret.error = <<"MissingMetadata">>

\* -------------------------------------------- claims on the formatting

\* A value that is absent, blank, or the literal string null.
NotPresent(v) ==
    \/ v = <<>>
    \/ \A i \in 1..Len(v[1]) : v[1][i] \in {" ", "\t", "\n"}
    \/ v[1] = <<"n", "u", "l", "l">>

\* The attribution of a sentence: the author and the bracketed source, either
\* or neither.
Attribution(sentence) ==
    LET who == sentence.from_who
        src == sentence.from
    IN  CASE ~NotPresent(who) /\ ~NotPresent(src) ->
                <<" ", "-", "-">> \o who[1] \o <<"[">> \o src[1] \o <<"]">>
          [] ~NotPresent(who) /\ NotPresent(src) -> <<" ", "-", "-">> \o who[1]
          [] NotPresent(who) /\ ~NotPresent(src) ->
                <<" ", "-", "-">> \o <<"[">> \o src[1] \o <<"]">>
          [] OTHER -> <<>>

\* C19: the text format with attribution is the quote followed by the author
\* and the bracketed source when both are present, by the one that is present
\* when only one is, and by nothing when neither is; absent, blank and "null"
\* values are not present.
C19_Attribution ==
    (fmt_ret # <<"none">> /\ fmt_source /\ fmt_sentence.hitokoto # <<>>
       /\ fmt_sentence.hitokoto[1] = "str") =>
        fmt_ret = <<"str", fmt_sentence.hitokoto[2] \o Attribution(fmt_sentence)>>

\* {hitokoto: "foo", from_who: "null", from: "bar"} gives foo --[bar].
C19_Witness ==
    /\ fmt_source
    /\ fmt_sentence.hitokoto = <<"str", <<"f", "o", "o">>>>
    /\ fmt_sentence.from_who = <<<<"n", "u", "l", "l">>>>
    /\ fmt_sentence.from = <<<<"b", "a", "r">>>>
    /\ fmt_ret = <<"str", <<"f", "o", "o", " ", "-", "-", "[", "b", "a", "r", "]">>>>

\* ------------------------------------- claims on the downloader's files

\* C20: when get_bundle has returned success, package-info.json holds the
\* returned report and the index holds exactly the entries of the category
\* files now on disk.
C20_MetaAndIndexOnSuccess ==
    (pc = "returned" /\ gb_ret.ok) =>
        /\ meta = <<"json", gb_ret.info>>
        /\ IndexSet = ValidProjection

\* ---------------------------------------- claims on the download report

\* C21: the source named by the package metadata a successful run wrote is a
\* mirror with the largest source_usage count of that run.
C21_SourceIsMajority ==
    (pc = "returned" /\ gb_ret.ok) =>
        \A m \in Sources :
            meta[2].source_usage[meta[2].source] >= meta[2].source_usage[m]

\* C23: a fetch that fails with a format error (a body that is not JSON, or
\* JSON that is not an array) is the last fetch of its category's call, and
\* the call returns the failure.
C23_FormatErrorNoRetry ==
    \A i \in 1..Len(attempts) :
        attempts[i].kind \in {"badjson", "notlist"} =>
            /\ i = Len(attempts)
            /\ CallReturned
            /\ ~dsf_ret.ok

\* The category before t in a pass; the last one before the first.
Preceding(t) ==
    LET i == CHOOSE j \in 1..Len(sentence_types) : sentence_types[j] = t
    IN  sentence_types[IF i = 1 THEN Len(sentence_types) ELSE i - 1]

\* C26: at most one request is in flight; it is the current category's, to
\* the mirror whose turn it is; and when it is the first request for a
\* category, the call for the preceding category has returned.
C26_OneRequestInFlight ==
    /\ Cardinality(in_flight) <= 1
    /\ \A req \in in_flight :
        /\ pc \in {"primary", "retry"}
        /\ req = <<SentenceType, Target>>
        /\ pc = "primary" =>
            \/ attempts = <<>>
            \/ /\ CallReturned
               /\ attempts[1].type = Preceding(SentenceType)
               /\ calls[Len(calls)][1] = Preceding(SentenceType)

C26_Witness ==
    /\ in_flight = {<<"b", "gh">>}
    /\ pc = "primary"
    /\ Len(attempts) = 4
    /\ attempts[1].type = "a"

\* C27: a fetch answered with an array replaces the category's file with that
\* array, whatever the file held, and the call returns the array's length; a
\* fetch that fails (network error, 404, a body that is not a JSON array)
\* leaves every category file as it was; neither touches the index or the
\* package info.
C27_FetchFrame ==
    [][attempts' # attempts =>
        LET a == attempts'[Len(attempts')] IN
        /\ index' = index
        /\ meta' = meta
        /\ IF a.kind = "ok"
           THEN /\ files' = [files EXCEPT ![a.type] = <<"list", Served(a.mirror, a.type)>>]
                /\ dsf_ret'.ok
                /\ dsf_ret'.type = a.type
                /\ dsf_ret'.count = Len(Served(a.mirror, a.type))
           ELSE files' = files]_vars

\* The fetch of a.json replaced the record an earlier download had left by
\* the one the of mirror serves.
C27_Witness ==
    /\ index = generate_index_file(PriorFiles, NoFile).index
    /\ files["a"] = <<"list", <<RecA>>>>
    /\ attempts = <<[type |-> "a", mirror |-> "of", kind |-> "ok"]>>
    /\ dsf_ret.count = 1

\* The reports of the run so far: what the last download_bundle_from_source
\* call and get_bundle returned on success.
Reports ==
    (IF dbs_ret.ok THEN {dbs_ret.info} ELSE {})
    \cup (IF gb_ret.ok THEN {gb_ret.info} ELSE {})

UsedBy(entries, m) == Len(SelectSeq(entries, LAMBDA e : e.source = m))

RECURSIVE SumUsage(_, _)
SumUsage(usage, ms) ==
    IF ms = {} THEN 0
    ELSE LET m == CHOOSE x \in ms : TRUE IN usage[m] + SumUsage(usage, ms \ {m})

\* C28: in every report files_amount is the number of `files` entries, amount
\* the sum of their amounts, source_usage[m] the number of entries whose
\* source is m, and the source_usage counts add up to files_amount.
C28_ReportAggregates ==
    \A info \in Reports :
        /\ info.files_amount = Len(info.files)
        /\ info.amount = SumAmounts(info.files)
        /\ \A m \in Sources : info.source_usage[m] = UsedBy(info.files, m)
        /\ SumUsage(info.source_usage, Sources) = info.files_amount

\* A report of a run that obtained some categories only, from two mirrors.
C28_Witness ==
    /\ pc = "returned"
    /\ gb_ret.ok
    /\ gb_ret.info.files_amount < Len(sentence_types)
    /\ gb_ret.info.amount > gb_ret.info.files_amount
    /\ Cardinality({m \in Sources : gb_ret.info.source_usage[m] > 0}) = 2

\* The categories named by the `files` entries of a report, in their order.
Obtained(info) == [i \in 1..Len(info.files) |-> TypeOf(info.files[i].name)]

\* Sequence s lists categories of ts, each at most once, in the order a..l.
InOrder(s) ==
    \A i, j \in 1..Len(s) :
        i < j => \E x, y \in 1..Len(sentence_types) :
                    x < y /\ sentence_types[x] = s[i] /\ sentence_types[y] = s[j]

Range(s) == {s[i] : i \in 1..Len(s)}

\* C29: in every report the categories of `files` and those of failed_types
\* are disjoint and together the 12 categories, each list in the order a..l
\* without repetition; and the amount of a file is the length of the array
\* the mirror named by its entry served for the category.
C29_ReportPartition ==
    \A info \in Reports :
        /\ \A i \in 1..Len(info.files) : info.files[i].name \in {FileName(t) : t \in Types}
        /\ InOrder(Obtained(info))
        /\ InOrder(info.failed_types)
        /\ Range(Obtained(info)) \cap Range(info.failed_types) = {}
        /\ Range(Obtained(info)) \cup Range(info.failed_types) = Types
        /\ \A i \in 1..Len(info.files) :
            /\ info.files[i].source \in Sources
            /\ info.files[i].amount =
                  Len(Served(info.files[i].source, Obtained(info)[i]))

\* A report with a failed category and with files obtained from two mirrors
\* that serve arrays of different lengths.
C29_Witness ==
    /\ pc = "returned"
    /\ gb_ret.ok
    /\ gb_ret.info.failed_types # <<>>
    /\ \E i \in 1..(Len(gb_ret.info.files) - 1) :
        /\ gb_ret.info.files[i].source # gb_ret.info.files[i + 1].source
        /\ gb_ret.info.files[i].amount # gb_ret.info.files[i + 1].amount

\* C30: a report keeps the categories that failed with a 404 apart from those
\* that failed otherwise: no list of the report holds one of each.
C30_NotFoundTrackedApart ==
    \A info \in Reports :
        \A t1, t2 \in Range(info.failed_types) :
            (t1 \in Range(hard_failed)) = (t2 \in Range(hard_failed))

\* ------------------------------------------------------ claims on crashes

\* C25: the check that follows a crash in the middle of writing a category
\* file does not pass: it reports that file as unreadable, or fails for want
\* of package metadata.
C25_TruncatedFileDetected ==
    (pc = "crashed" /\ Checked) =>
        /\ ~chk_ret.ok
        /\ \/ chk_ret.error = <<"MissingMetadata">>
           \/ \E j \in 1..Len(chk_ret.issues) :
                 chk_ret.issues[j] = <<"ReadError", FileName(SentenceType)>>

\* ------------------------------------------- claims on the command line

\* C22: a run of the program that ends in a failure (main returned 1: no
\* bundle, a failed check, a quote not found, a failed index update, the API
\* out of reach) ends the process with a status other than 0.
C22_FailureExitsNonZero ==
    (command # "none" /\ main_ret = <<1>>) => exit_status # <<0>>

\* C24: after the index update command on an existing bundle, the index file
\* is the one generate_index_file builds from the category files, and main
\* reported success.
C24_UpdateIndexRebuilds ==
    (command = "update-index" /\ check_bundle_exists(meta)) =>
        /\ main_ret = <<0>>
        /\ index = generate_index_file(files, index).index

\* ------------------------------------------- claims on failure isolation

\* A record that can be indexed: an object with an id, a non-empty uuid and
\* a text whose length can be taken.
Indexable(r) == r.dict /\ ~LenRaises(r) /\ r.id # <<>> /\ r.uuid \notin {<<>>, <<"">>}

\* C31: when a rebuild call has returned, every record that can be indexed,
\* of every category file that is a list, has its entry in the index,
\* whatever other records its file holds and whatever the other files are.
C31_MalformedSkippedAlone ==
    last_op = "rebuild" =>
        \A t \in Types : \A r \in Records(t) :
            Indexable(r) => IndexEntry(r, t) \in IndexSet

\* The category file an index entry names in its `file` field.
EntryFile(e) == files[CHOOSE t \in Types : "bundle/" \o FileName(t) = e.file]

\* The entry's file and the entry disagree on `key`: the file is missing,
\* cannot be decoded, is not a list, or holds no record with the entry's key.
Disagree(e, key) ==
    \/ ~Exists(EntryFile(e))
    \/ EntryFile(e)[1] # "list"
    \/ \A i \in 1..Len(EntryFile(e)[2]) :
          ~EntryFile(e)[2][i].dict \/ EntryFile(e)[2][i][key] # e[key]

\* C32: a lookup by id or uuid whose index entry disagrees with the entry's
\* category file returns "not found".
C32_MismatchNotFound ==
    q_ret.op \in {"id", "uuid"} =>
        LET hit == FirstItem(IndexItems, q_ret.op, q_ret.arg[1]) IN
        (hit # <<>> /\ Disagree(hit[1], q_ret.op)) => q_ret.val = <<>>

\* The index entries a random query with the filters of q_ret chooses from.
Survivors == get_sentences_by_type(index, q_ret.arg[1], q_ret.arg[2], q_ret.arg[3])

\* C33: a random query returns a record whenever one of the index entries
\* that pass its category and length filters has its record in its category
\* file.
C33_RandomFindsResolvable ==
    (q_ret.op = "random"
        /\ \E i \in 1..Len(Survivors) : ~Disagree(Survivors[i], "id"))
    => q_ret.val # <<>>

\* The sentences of exp_ret are records of indexed entries: each is a record
\* of a category file whose entry is in the index, the set every candidate
\* set is drawn from.
WroteIndexed ==
    exp_ret.ok =>
        \A i \in 1..Len(exp_ret.sentences) :
            \E t \in Types :
                /\ exp_ret.sentences[i] \in Records(t)
                /\ IndexEntry(exp_ret.sentences[i], t) \in IndexSet

\* C34: every sentence an export writes is the record of an entry of the
\* candidate set, so of an entry of the index, whatever the state of the
\* bundle the export runs on.
C34_ExportsCandidates == [][n_exports' # n_exports => WroteIndexed']_vars

\* ---------------------------------------------- claims on the bundle left

\* The names the metadata lists under `files`.
ListedNames ==
    IF meta # NoFile /\ meta[1] = "json"
    THEN {meta[2].files[i].name : i \in 1..Len(meta[2].files)}
    ELSE {}

\* C35: once get_bundle has returned success, every category file in the
\* bundle directory is listed in the metadata, and every index entry refers
\* to a listed category file.
C35_BundleMatchesMetadata ==
    (pc = "returned" /\ gb_ret.ok) =>
        /\ \A t \in Types : Exists(files[t]) => FileName(t) \in ListedNames
        /\ \A e \in IndexSet : \E n \in ListedNames : e.file = "bundle/" \o n

\* C36: the integrity check that follows a get_bundle run which returned
\* success, with no other write to the bundle directory in between, succeeds.
C36_CheckPassesAfterSuccess ==
    (pc = "returned" /\ gb_ret.ok /\ chk_ret # NoChk) => chk_ret.ok

\* ------------------------------------------------ claims on concurrency

\* Both concurrent runs have returned success.
BothReturned == \A p \in Procs : procs[p].pc = "returned" /\ procs[p].ok

\* The amount the metadata gives for category t's file, <<>> when unlisted.
ListedAmount(t) ==
    LET hits == SelectSeq(meta[2].files, LAMBDA f : f.name = FileName(t))
    IN  IF hits = <<>> THEN <<>> ELSE <<hits[1].amount>>

\* The metadata's amount for category t's file is not the file's count.
AmountOff(t) == ListedAmount(t) # <<Len(files[t][2])>>

\* C37: two get_bundle runs at the same time on one bundle directory race.
\* Once both have returned success the metadata is the report of one of
\* them, listing every category with the count its mirror served, and
\* where that amount is not the element count of the file on disk the file
\* is the one the other run wrote.
C37_ConcurrentRunsRace ==
    BothReturned =>
        \E p \in Procs :
            /\ meta[2].source = RaceSource(p)
            /\ \A t \in Types :
                /\ ListedAmount(t) = <<Len(Served(RaceSource(p), t))>>
                /\ AmountOff(t) =>
                       \E q \in Procs \ {p} : files[t] = <<"list", Served(RaceSource(q), t)>>

\* Both runs have returned success and the metadata's amount for a category
\* file differs from the file's element count.
C37_Witness == BothReturned /\ \E t \in Types : AmountOff(t)

\* ------------------------------------------------ claims on termination

\* No download_single_file_with_retry call is made twice for one category
\* with one primary mirror: a mirror is the primary of one pass at most.
OnePassPerMirror == \A i, j \in 1..Len(calls) : calls[i] = calls[j] => i = j

\* C38: get_bundle always returns, whatever the mirrors answer: a call of
\* download_single_file_with_retry makes four attempts at most, each mirror
\* of the try order is the primary of one pass at most, and the run comes
\* to its return.
C38_AlwaysTerminates ==
    /\ [](Len(attempts) <= 4 /\ Len(passes) <= Len(try_order) /\ OnePassPerMirror)
    /\ <>(pc = "returned")

\* A run that returned after a pass on every mirror of the try order, its
\* last call having made four attempts.
C38_Witness ==
    /\ pc = "returned"
    /\ Len(try_order) = 3
    /\ Len(passes) = Len(try_order)
    /\ Len(attempts) = 4

\* ------------------------------------------- claims on the two formatters

\* C39: for one record and one attribution flag, in text mode,
\* format_sentence_output and format_hitokoto_output give the same text.
C39_FormattersAgree ==
    (fmt_ret # <<"none">> /\ api_ret # <<"none">>) => fmt_ret = api_ret

=============================================================================
